---------------------------- MODULE Spec2Model ----------------------------
(***************************************************************************)
(* Model of the encoding decision pipeline of video-concat-av1-container:  *)
(* src/src/video.rs (encode_best_effort and its helpers) and the inline    *)
(* pipeline of src/src/main.rs.                                            *)
(*                                                                         *)
(* Text read by the program (process output, probe fields) is a sequence   *)
(* of one-character strings, so that the regular expressions and the       *)
(* number parsers are computed character by character.  Text written by    *)
(* the program (the filter program, command arguments) is a string built   *)
(* with \o and ToString, as format!() builds it.                           *)
(***************************************************************************)
EXTENDS Integers, Sequences, FiniteSets, TLC

VARIABLES
    pc,           \* position of encode_best_effort_impl
    args,         \* its parameters: paths, enough_vmaf, min_crf
    analysis,     \* what analyze_video_file returned for each path probed so far
    input_files,  \* Vec<InputFile>, video.rs:104
    ffmpeg_cmd,   \* the encoder Command under construction, video.rs:117
    search_cmd,   \* the ab-av1 Command of get_best_crf_impl, video.rs:649
    best,         \* (best_crf, predicted_vmaf), video.rs:135
    result,       \* what encode_best_effort_impl returned
    log,          \* external processes started so far, in order
    version_outputs, \* what the version commands printed, in the order they ran
    search_outputs,  \* what ab_av1_cmd.output() gave, once the search has run
    encode_outputs,  \* what ffmpeg_cmd.output() gave, once the encoder has run
    u_call,       \* a direct call of one function (as the unit tests make)
    u_ret         \* what that call returned

vars == <<pc, args, analysis, input_files, ffmpeg_cmd, search_cmd, best, result, log,
          version_outputs, search_outputs, encode_outputs, u_call, u_ret>>

pipeline_vars == <<pc, args, analysis, input_files, ffmpeg_cmd, search_cmd, best, result, log,
                   version_outputs, search_outputs, encode_outputs>>

unit_vars == <<u_call, u_ret>>

-----------------------------------------------------------------------------
(* Bounds of the model *)

\* paths given to one run of encode_best_effort
MaxPaths == 3

\* InputFiles given to one direct call of the filter builder
MaxInputs == 2

\* width and height range over 0..MaxDim in direct calls of the filter builder
MaxDim == 2

-----------------------------------------------------------------------------
(* Characters and text *)

Digits == {"0", "1", "2", "3", "4", "5", "6", "7", "8", "9"}

Letters == {"a", "b", "c", "d", "e", "f", "g", "h", "i", "j", "k", "l", "m",
            "n", "o", "p", "q", "r", "s", "t", "u", "v", "w", "x", "y", "z",
            "A", "B", "C", "D", "E", "F", "G", "H", "I", "J", "K", "L", "M",
            "N", "O", "P", "Q", "R", "S", "T", "U", "V", "W", "X", "Y", "Z"}

\* regex \s
Whitespace == {" ", "\t", "\n", "\r", "\f"}

\* regex \w, the characters \b tells apart from the others
WordChars == Digits \cup Letters \cup {"_"}

DigitVal(c) ==
    CASE c = "0" -> 0 [] c = "1" -> 1 [] c = "2" -> 2 [] c = "3" -> 3
      [] c = "4" -> 4 [] c = "5" -> 5 [] c = "6" -> 6 [] c = "7" -> 7
      [] c = "8" -> 8 [] c = "9" -> 9

Max2(a, b) == IF a >= b THEN a ELSE b

Min2(a, b) == IF a <= b THEN a ELSE b

\* the text of a character sequence
RECURSIVE Text(_)
Text(s) == IF s = <<>> THEN "" ELSE Head(s) \o Text(Tail(s))

\* first index >= i whose character is not in class (Len(s) + 1 if none): the
\* end of the longest run a greedy class+ can consume from i
RECURSIVE RunEnd(_, _, _)
RunEnd(s, i, class) ==
    IF i <= Len(s) /\ s[i] \in class THEN RunEnd(s, i + 1, class) ELSE i

\* the literal lit stands at index i of s
HasLit(s, i, lit) ==
    /\ i >= 1
    /\ i + Len(lit) - 1 <= Len(s)
    /\ SubSeq(s, i, i + Len(lit) - 1) = lit

IsWordAt(s, i) == i >= 1 /\ i <= Len(s) /\ s[i] \in WordChars

\* regex \b between the characters i-1 and i
WordBoundary(s, i) == IsWordAt(s, i - 1) # IsWordAt(s, i)

\* lexicographic order of equally long tuples of numbers: the order in which a
\* backtracking matcher prefers the ends of its greedy quantifiers
RECURSIVE LexGE(_, _)
LexGE(t, u) ==
    IF t = <<>> THEN TRUE
    ELSE IF Head(t) # Head(u) THEN Head(t) > Head(u)
    ELSE LexGE(Tail(t), Tail(u))

Preferred(M) == CHOOSE t \in M : \A u \in M : LexGE(t, u)

-----------------------------------------------------------------------------
(* Option and numbers *)

NoneInt == [some |-> FALSE, val |-> 0]

SomeInt(n) == [some |-> TRUE, val |-> n]

\* value of a digit string, saturating above every integer type parsed here
RECURSIVE DecVal(_, _)
DecVal(s, acc) ==
    IF s = <<>> THEN acc
    ELSE DecVal(Tail(s), Min2(acc * 10 + DigitVal(Head(s)), 100000))

U8Max == 255

\* str::parse::<u8>: an optional "+", then one or more ASCII digits, value <= 255
ParseU8(s) ==
    LET body == IF s # <<>> /\ Head(s) = "+" THEN Tail(s) ELSE s
    IN  IF body = <<>> \/ (\E i \in 1..Len(body) : body[i] \notin Digits)
        THEN NoneInt
        ELSE IF DecVal(body, 0) > U8Max THEN NoneInt ELSE SomeInt(DecVal(body, 0))

-----------------------------------------------------------------------------
(* f64: parsing (str::parse::<f64>) and formatting ({:} of f64).           *)
(* A value is kept as its decimal expansion, which is exact for the texts  *)
(* modelled here: at most 15 significant digits, exponents of one digit.   *)

RECURSIVE StripLeadingZeros(_)
StripLeadingZeros(d) ==
    IF Len(d) > 1 /\ Head(d) = "0" THEN StripLeadingZeros(Tail(d))
    ELSE IF d = <<>> THEN <<"0">> ELSE d

RECURSIVE StripTrailingZeros(_)
StripTrailingZeros(d) ==
    IF d # <<>> /\ d[Len(d)] = "0" THEN StripTrailingZeros(SubSeq(d, 1, Len(d) - 1))
    ELSE d

Zeros(n) == [i \in 1..n |-> "0"]

Lower(c) ==
    CASE c = "I" -> "i" [] c = "N" -> "n" [] c = "F" -> "f" [] c = "T" -> "t"
      [] c = "Y" -> "y" [] c = "A" -> "a" [] c = "E" -> "e" [] OTHER -> c

LowerText(s) == [i \in 1..Len(s) |-> Lower(s[i])]

F64Zero == [class |-> "finite", neg |-> FALSE, int |-> <<"0">>, frac |-> <<>>]

NoneF64 == [some |-> FALSE, val |-> F64Zero]

SomeF64(x) == [some |-> TRUE, val |-> x]

\* the finite value (-1)^neg * 0.digits * 10^point, digits a digit string
F64Finite(neg, digits, point) ==
    LET all == IF point < 0 THEN Zeros(0 - point) \o digits
               ELSE IF point > Len(digits) THEN digits \o Zeros(point - Len(digits))
               ELSE digits
        p   == Max2(point, 0)
    IN  [class |-> "finite", neg |-> neg,
         int  |-> StripLeadingZeros(SubSeq(all, 1, p)),
         frac |-> StripTrailingZeros(SubSeq(all, p + 1, Len(all)))]

\* Sign? ( "inf" | "infinity" | "nan" | Number ), the names in any case;
\* Number ::= ( Digit+ | Digit+ "." Digit* | Digit* "." Digit+ ) Exp?
\* Exp    ::= ("e" | "E") Sign? Digit+
ParseF64(s) ==
    LET signed == s # <<>> /\ Head(s) \in {"+", "-"}
        neg    == s # <<>> /\ Head(s) = "-"
        body   == IF signed THEN Tail(s) ELSE s
        low    == LowerText(body)
        iend   == RunEnd(body, 1, Digits)
        dot    == iend <= Len(body) /\ body[iend] = "."
        fstart == IF dot THEN iend + 1 ELSE iend
        fend   == IF dot THEN RunEnd(body, fstart, Digits) ELSE iend
        idig   == SubSeq(body, 1, iend - 1)
        fdig   == SubSeq(body, fstart, fend - 1)
        hasexp == fend <= Len(body) /\ low[fend] = "e"
        esign  == hasexp /\ fend + 1 <= Len(body) /\ body[fend + 1] \in {"+", "-"}
        eneg   == esign /\ body[fend + 1] = "-"
        estart == IF esign THEN fend + 2 ELSE fend + 1
        eend   == IF hasexp THEN RunEnd(body, estart, Digits) ELSE fend
        edig   == IF hasexp THEN SubSeq(body, estart, eend - 1) ELSE <<>>
        e      == IF eneg THEN 0 - DecVal(edig, 0) ELSE DecVal(edig, 0)
    IN  IF low = <<"i", "n", "f">> \/ low = <<"i", "n", "f", "i", "n", "i", "t", "y">>
        THEN SomeF64([class |-> "inf", neg |-> neg, int |-> <<"0">>, frac |-> <<>>])
        ELSE IF low = <<"n", "a", "n">>
        THEN SomeF64([class |-> "nan", neg |-> neg, int |-> <<"0">>, frac |-> <<>>])
        ELSE IF /\ Len(idig) + Len(fdig) >= 1
                /\ (hasexp => edig # <<>>)
                /\ eend = Len(body) + 1
        THEN SomeF64(F64Finite(neg, idig \o fdig, Len(idig) + e))
        ELSE NoneF64

\* format!("{:}", x) of an f64: the shortest decimal text that reads back as x,
\* never in exponent form
DisplayF64(x) ==
    IF x.class = "nan" THEN "NaN"
    ELSE (IF x.neg THEN "-" ELSE "") \o
         (IF x.class = "inf" THEN "inf"
          ELSE Text(x.int) \o (IF x.frac = <<>> THEN "" ELSE "." \o Text(x.frac)))

-----------------------------------------------------------------------------
(* The regular expressions of video.rs:21-29 and of the unit test of       *)
(* check_command.  A match is a tuple of the ends of the greedy            *)
(* quantifiers, each at most the end of the longest run of its class; the  *)
(* matcher returns the one it prefers (longest first, leftmost quantifier  *)
(* first).  Text is ASCII here, where \d, \s and \b are the ASCII classes. *)

NoCaptures == [matched |-> FALSE, c1 |-> <<>>, c2 |-> <<>>]

Captures(s, from1, to1, from2, to2) ==
    [matched |-> TRUE, c1 |-> SubSeq(s, from1, to1 - 1), c2 |-> SubSeq(s, from2, to2 - 1)]

\* ^ffmpeg\s+version\s+(\d+)\.(\d+)\b
FFMPEG_STDOUT_RETRIEVE_VERSION_REGEX(s) ==
    LET M ==
          IF ~HasLit(s, 1, <<"f", "f", "m", "p", "e", "g">>) THEN {}
          ELSE UNION { UNION { UNION { { <<e1, e2, e3, e4>> :
                 e4 \in {x \in (e3 + 2)..RunEnd(s, e3 + 1, Digits) : WordBoundary(s, x)} } :
                 e3 \in {x \in (e2 + 1)..RunEnd(s, e2, Digits) : x <= Len(s) /\ s[x] = "."} } :
                 e2 \in (e1 + 8)..RunEnd(s, e1 + 7, Whitespace) } :
                 e1 \in {x \in 8..RunEnd(s, 7, Whitespace) :
                           HasLit(s, x, <<"v", "e", "r", "s", "i", "o", "n">>)} }
    IN  IF M = {} THEN NoCaptures
        ELSE LET t == Preferred(M) IN Captures(s, t[2], t[3], t[3] + 1, t[4])

\* ^ab-av1\s+(\d+)\.(\d+).\d\b   ("." any character but a line feed)
AB_AV1_STDOUT_RETRIEVE_VERSION_REGEX(s) ==
    LET M ==
          IF ~HasLit(s, 1, <<"a", "b", "-", "a", "v", "1">>) THEN {}
          ELSE UNION { UNION { { <<e1, e2, e3>> :
                 e3 \in {x \in (e2 + 2)..RunEnd(s, e2 + 1, Digits) :
                           /\ x + 1 <= Len(s)
                           /\ s[x] # "\n"
                           /\ s[x + 1] \in Digits
                           /\ WordBoundary(s, x + 2)} } :
                 e2 \in {x \in (e1 + 1)..RunEnd(s, e1, Digits) : x <= Len(s) /\ s[x] = "."} } :
                 e1 \in 8..RunEnd(s, 7, Whitespace) }
    IN  IF M = {} THEN NoCaptures
        ELSE LET t == Preferred(M) IN Captures(s, t[1], t[2], t[2] + 1, t[3])

\* ^(\d+)\.(\d+)   (test_check_command)
TEST_VERSION_REGEX(s) ==
    LET M == UNION { { <<e1, e2>> : e2 \in (e1 + 2)..RunEnd(s, e1 + 1, Digits) } :
                 e1 \in {x \in 2..RunEnd(s, 1, Digits) : x <= Len(s) /\ s[x] = "."} }
    IN  IF M = {} THEN NoCaptures
        ELSE LET t == Preferred(M) IN Captures(s, 1, t[1], t[1] + 1, t[2])

\* re.captures(&stdout) with re one of the patterns above, named
RegexCaptures(re, s) ==
    CASE re = "FFMPEG_STDOUT_RETRIEVE_VERSION_REGEX" -> FFMPEG_STDOUT_RETRIEVE_VERSION_REGEX(s)
      [] re = "AB_AV1_STDOUT_RETRIEVE_VERSION_REGEX" -> AB_AV1_STDOUT_RETRIEVE_VERSION_REGEX(s)
      [] re = "TEST_VERSION_REGEX" -> TEST_VERSION_REGEX(s)

\* ^\s*crf\s+(\d+)\s+VMAF\s+(\d+(?:\.\d+)?)
AB_AV1_STDOUT_RETRIEVE_CRF_REGEX(s) ==
    LET M ==
          UNION { UNION { UNION { UNION { UNION { UNION { { <<e1, e2, e3, e4, e5, e6, e7>> :
            e7 \in {e6} \cup (IF e6 <= Len(s) /\ s[e6] = "."
                              THEN (e6 + 2)..RunEnd(s, e6 + 1, Digits) ELSE {}) } :
            e6 \in (e5 + 1)..RunEnd(s, e5, Digits) } :
            e5 \in (e4 + 5)..RunEnd(s, e4 + 4, Whitespace) } :
            e4 \in {x \in (e3 + 1)..RunEnd(s, e3, Whitespace) : HasLit(s, x, <<"V", "M", "A", "F">>)} } :
            e3 \in (e2 + 1)..RunEnd(s, e2, Digits) } :
            e2 \in (e1 + 4)..RunEnd(s, e1 + 3, Whitespace) } :
            e1 \in {x \in 1..RunEnd(s, 1, Whitespace) : HasLit(s, x, <<"c", "r", "f">>)} }
    IN  IF M = {} THEN NoCaptures
        ELSE LET t == Preferred(M) IN Captures(s, t[2], t[3], t[5], t[7])

\* Failed to find a suitable crf\s*$   (is_match: searched anywhere in the text)
AB_AV1_STDERR_CHECK_GOOD_CRF_NOT_FOUND_REGEX(s) ==
    LET lit == <<"F", "a", "i", "l", "e", "d", " ", "t", "o", " ", "f", "i", "n", "d", " ",
                 "a", " ", "s", "u", "i", "t", "a", "b", "l", "e", " ", "c", "r", "f">>
    IN  \E i \in 1..Len(s) :
            /\ HasLit(s, i, lit)
            /\ RunEnd(s, i + Len(lit), Whitespace) = Len(s) + 1

-----------------------------------------------------------------------------
(* Error, video.rs:32-55.  One record shape for every kind: a and b are    *)
(* the numbers a kind carries, text its text, path the index of its path.  *)

Error(kind, a, b, path, text) == [kind |-> kind, a |-> a, b |-> b, path |-> path, text |-> text]

NoError == Error("", 0, 0, 0, <<>>)

\* Result<(), Error> and the Results of the pipeline
Ok == [ok |-> TRUE, err |-> NoError]

Err(e) == [ok |-> FALSE, err |-> e]

\* what Command::output() gave: Err (the process did not start) or the exit
\* status and the captured texts
NotStarted == [started |-> FALSE, success |-> FALSE, code |-> 0, stdout |-> <<>>, stderr |-> <<>>]

Exited(code, stdout, stderr) ==
    [started |-> TRUE, success |-> (code = 0), code |-> code, stdout |-> stdout, stderr |-> stderr]

\* a mutant of check_command: the minor floor taken as exclusive
check_command_exclusive_floor(expected_major_version, min_minor_version, output, re) ==
    IF ~output.started THEN Err(Error("VersionCheckCommandProcessFailed", 0, 0, 0, <<>>))
    ELSE
    LET caps == RegexCaptures(re, output.stdout)
        major_version == ParseU8(caps.c1)
        minor_version == ParseU8(caps.c2)
    IN  IF ~caps.matched THEN Err(Error("VersionOutputNotMatched", 0, 0, 0, output.stdout))
        ELSE IF ~major_version.some THEN Err(Error("VersionNotValidInteger", 0, 0, 0, caps.c1))
        ELSE IF ~minor_version.some THEN Err(Error("VersionNotValidInteger", 0, 0, 0, caps.c2))
        ELSE IF \/ expected_major_version # major_version.val
                \/ minor_version.val <= min_minor_version
        THEN Err(Error("NotSupportedCommandVersion", major_version.val, minor_version.val, 0, <<>>))
        ELSE Ok

\* check_command, video.rs:263-285; output is what cmd.output() gave
check_command(expected_major_version, min_minor_version, output, re) ==
    IF ~output.started THEN Err(Error("VersionCheckCommandProcessFailed", 0, 0, 0, <<>>))
    ELSE
    LET caps == RegexCaptures(re, output.stdout)
        major_version == ParseU8(caps.c1)
        minor_version == ParseU8(caps.c2)
    IN  IF ~caps.matched THEN Err(Error("VersionOutputNotMatched", 0, 0, 0, output.stdout))
        ELSE IF ~major_version.some THEN Err(Error("VersionNotValidInteger", 0, 0, 0, caps.c1))
        ELSE IF ~minor_version.some THEN Err(Error("VersionNotValidInteger", 0, 0, 0, caps.c2))
        ELSE IF \/ expected_major_version # major_version.val
                \/ minor_version.val < min_minor_version
        THEN Err(Error("NotSupportedCommandVersion", major_version.val, minor_version.val, 0, <<>>))
        ELSE Ok

-----------------------------------------------------------------------------
(* ffprobe's answer and its analysis, video.rs:317-360 and 492-614 *)

NoneText == [some |-> FALSE, val |-> <<>>]

SomeText(s) == [some |-> TRUE, val |-> s]

NoneStr == [some |-> FALSE, val |-> ""]

SomeStr(s) == [some |-> TRUE, val |-> s]

\* ffprobe::Stream: the fields the program reads
Stream(codec_type, width, height, duration) ==
    [codec_type |-> codec_type, width |-> width, height |-> height, duration |-> duration]

NoStream == [some |-> FALSE, val |-> Stream(NoneStr, NoneInt, NoneInt, NoneText)]

\* ffprobe::ffprobe(path): Err, or the format and the streams
ProbeFailed == [ok |-> FALSE, format |-> [duration |-> NoneText], streams |-> <<>>]

Probed(format_duration, streams) ==
    [ok |-> TRUE, format |-> [duration |-> format_duration], streams |-> streams]

\* InputFile, video.rs:73-79
InputFile(path, width, height, alternative_null_audio_duration) ==
    [path |-> path, width |-> width, height |-> height,
     alternative_null_audio_duration |-> alternative_null_audio_duration]

NoInputFile == [some |-> FALSE, val |-> InputFile(0, 0, 0, NoneF64)]

SomeInputFile(f) == [some |-> TRUE, val |-> f]

\* get_first_stream_for_codec_type, video.rs:547-554
get_first_stream_for_codec_type(codec_type, streams) ==
    LET hits == {i \in 1..Len(streams) : streams[i].codec_type = SomeStr(codec_type)}
    IN  IF hits = {} THEN NoStream
        ELSE [some |-> TRUE, val |-> streams[CHOOSE i \in hits : \A j \in hits : i <= j]]

\* get_first_video_stream, video.rs:583-585
get_first_video_stream(streams) == get_first_stream_for_codec_type("video", streams)

\* get_first_audio_stream, video.rs:612-614
get_first_audio_stream(streams) == get_first_stream_for_codec_type("audio", streams)

\* get_stream_duration, video.rs:492-506
get_stream_duration(stream, format) ==
    IF stream.duration.some /\ ParseF64(stream.duration.val).some
    THEN ParseF64(stream.duration.val)
    ELSE IF format.duration.some /\ ParseF64(format.duration.val).some
    THEN ParseF64(format.duration.val)
    ELSE NoneF64

\* a mutant of analyze_video_file_impl: the duration is required of every
\* input, with or without an audio stream
analyze_video_file_impl_always_duration(path, format, streams) ==
    LET video_stream == get_first_video_stream(streams)
        width  == video_stream.val.width
        height == video_stream.val.height
        video_duration == get_stream_duration(video_stream.val, format)
    IN  IF ~video_stream.some THEN NoInputFile
        ELSE IF ~(width.some /\ height.some) THEN NoInputFile
        ELSE IF width.val < 0 \/ height.val < 0 THEN NoInputFile
        ELSE IF ~video_duration.some THEN NoInputFile
        ELSE IF get_first_audio_stream(streams).some
        THEN SomeInputFile(InputFile(path, width.val, height.val, NoneF64))
        ELSE SomeInputFile(InputFile(path, width.val, height.val, video_duration))

\* analyze_video_file_impl, video.rs:331-360
analyze_video_file_impl(path, format, streams) ==
    LET video_stream == get_first_video_stream(streams)
        width  == video_stream.val.width
        height == video_stream.val.height
        video_duration == get_stream_duration(video_stream.val, format)
    IN  IF ~video_stream.some THEN NoInputFile
        ELSE IF ~(width.some /\ height.some) THEN NoInputFile
        ELSE IF width.val < 0 \/ height.val < 0 THEN NoInputFile
        ELSE IF get_first_audio_stream(streams).some
        THEN SomeInputFile(InputFile(path, width.val, height.val, NoneF64))
        ELSE IF ~video_duration.some THEN NoInputFile
        ELSE SomeInputFile(InputFile(path, width.val, height.val, video_duration))

\* analyze_video_file, video.rs:317-328
analyze_video_file(path, probe) ==
    IF ~probe.ok THEN NoInputFile
    ELSE analyze_video_file_impl(path, probe.format, probe.streams)

-----------------------------------------------------------------------------
(* get_avfilter_code, video.rs:416-455.  The statements are the strings    *)
(* pushed to filter_code (and logged, "Add filter: ..."), in order; the    *)
(* filter program is their concatenation.                                  *)

RECURSIVE Concat(_)
Concat(strs) == IF strs = <<>> THEN "" ELSE Head(strs) \o Concat(Tail(strs))

\* a mutant of MaxOf: the first element taken for the greatest
MaxOf_first(xs) == xs[1]

\* An i64, video.rs:76-77.  A value below 2^30 in magnitude is the integer
\* itself.  A greater one, the number m * 2^e of an odd m, is written as the
\* integer I64Wide(neg, m, e), below -2^30, which no value of the first kind
\* is.  The odd parts of the dimensions of this model are below 2^11, so that
\* the odd part of a product is below 2^22.
I64Bits == 64

I64Wide(neg, m, e) == 0 - (2^30 + 2 * (64 * m + e) + (IF neg THEN 1 ELSE 0))

IsWide(x) == x <= 0 - 2^30

\* the number of binary digits of n
RECURSIVE BitLen(_)
BitLen(n) == IF n = 0 THEN 0 ELSE 1 + BitLen(n \div 2)

\* the sign, the odd part and the power of two of the number m * 2^e (the
\* odd part of 0 is 0)
RECURSIVE OddPart(_, _, _)
OddPart(neg, m, e) ==
    IF m = 0 THEN [neg |-> FALSE, m |-> 0, e |-> 0]
    ELSE IF m % 2 = 0 THEN OddPart(neg, m \div 2, e + 1)
    ELSE [neg |-> neg, m |-> m, e |-> e]

\* the sign, the odd part and the power of two of an i64
I64Parts(x) ==
    IF IsWide(x)
    THEN LET code == (0 - x) - 2^30
         IN  [neg |-> code % 2 = 1, m |-> (code \div 2) \div 64, e |-> (code \div 2) % 64]
    ELSE OddPart(x < 0, IF x < 0 THEN 0 - x ELSE x, 0)

\* the i64 of the sign and of the number m * 2^e
I64Of(neg, m, e) ==
    LET p == OddPart(neg, m, e)
    IN  IF BitLen(p.m) + p.e <= 30
        THEN (IF p.neg THEN 0 - p.m * 2^(p.e) ELSE p.m * 2^(p.e))
        ELSE I64Wide(p.neg, p.m, p.e)

\* m * 2^e of p above m * 2^e of q
MagnitudeGt(p, q) ==
    IF p.m = 0 THEN FALSE
    ELSE IF q.m = 0 THEN TRUE
    ELSE IF BitLen(p.m) + p.e # BitLen(q.m) + q.e
    THEN BitLen(p.m) + p.e > BitLen(q.m) + q.e
    ELSE IF p.e >= q.e THEN p.m * 2^(p.e - q.e) > q.m
    ELSE p.m > q.m * 2^(q.e - p.e)

\* two i64 of less than 15 binary digits, whose product is below 2^30
BothShort(a, b) ==
    /\ 0 - 2^15 < a /\ a < 2^15
    /\ 0 - 2^15 < b /\ b < 2^15

\* a > b of two i64
I64Gt(a, b) ==
    IF ~IsWide(a) /\ ~IsWide(b) THEN a > b
    ELSE LET p == I64Parts(a)
             q == I64Parts(b)
         IN  IF p.neg # q.neg THEN q.neg
             ELSE IF p.neg THEN MagnitudeGt(q, p)
             ELSE MagnitudeGt(p, q)

\* a <= b of two i64
I64Le(a, b) == ~I64Gt(a, b)

\* a * b of two non-negative i64 leaves the range of an i64: the arithmetic
\* overflow of the multiplications of video.rs:131 and 428
I64MulOverflows(a, b) ==
    LET p == I64Parts(a)
        q == I64Parts(b)
    IN  /\ ~BothShort(a, b)
        /\ p.m * q.m # 0 /\ BitLen(p.m * q.m) + p.e + q.e > I64Bits - 1

\* a * b of two non-negative i64 where the overflow is not checked: the low
\* 64 bits of the product, read as a signed number
I64Mul(a, b) ==
    LET p == I64Parts(a)
        q == I64Parts(b)
        m == p.m * q.m
        e == p.e + q.e
        low == m % 2^(I64Bits - e)
    IN  IF BothShort(a, b) THEN a * b
        ELSE IF m = 0 THEN 0
        ELSE IF ~I64MulOverflows(a, b) THEN I64Of(FALSE, m, e)
        ELSE IF e >= I64Bits THEN 0
        ELSE IF low < 2^(I64Bits - 1 - e) THEN I64Of(FALSE, low, e)
        ELSE I64Of(TRUE, 2^(I64Bits - e) - low, e)

\* the decimal digits of a natural number below 2^31, the units last
RECURSIVE DecimalDigits(_)
DecimalDigits(n) ==
    IF n < 10 THEN <<n>> ELSE Append(DecimalDigits(n \div 10), n % 10)

\* the decimal digits of k times the number of the digits ds, plus carry
RECURSIVE TimesDigits(_, _, _)
TimesDigits(ds, k, carry) ==
    IF ds = <<>> THEN (IF carry = 0 THEN <<>> ELSE DecimalDigits(carry))
    ELSE LET d == k * ds[Len(ds)] + carry
         IN  Append(TimesDigits(SubSeq(ds, 1, Len(ds) - 1), k, d \div 10), d % 10)

\* the decimal digits of 2^e times the number of the digits ds
RECURSIVE TimesPow2Digits(_, _)
TimesPow2Digits(ds, e) ==
    IF e <= 15 THEN TimesDigits(ds, 2^e, 0)
    ELSE TimesPow2Digits(TimesDigits(ds, 2^15, 0), e - 15)

\* format!("{:}", x) of an i64
I64Display(x) ==
    IF ~IsWide(x) THEN ToString(x)
    ELSE LET p == I64Parts(x)
             ds == TimesPow2Digits(DecimalDigits(p.m), p.e)
         IN  (IF p.neg THEN "-" ELSE "") \o Concat([k \in 1..Len(ds) |-> ToString(ds[k])])

\* Iterator::max over a non-empty Vec of integers
MaxOf(xs) ==
    CHOOSE m \in {xs[i] : i \in 1..Len(xs)} : \A i \in 1..Len(xs) : I64Le(xs[i], m)

\* a mutant of part_video_filter_code: the aspect ratios compared without the
\* cross-multiplication
part_video_filter_code_same_axis(input_file, target_width, target_height) ==
    IF input_file.width = target_width /\ input_file.height = target_height
    THEN "null"
    ELSE IF input_file.width = target_width \/ input_file.height = target_height
    THEN "scale=" \o ToString(target_width) \o ":" \o ToString(target_height)
    ELSE "scale=" \o ToString(target_width) \o ":" \o ToString(target_height)
         \o ":force_original_aspect_ratio=decrease,pad="
         \o ToString(target_width) \o ":" \o ToString(target_height)
         \o ":(ow-iw)/2:(oh-ih)/2"

\* part_video_filter_code, video.rs:426-433
part_video_filter_code(input_file, target_width, target_height) ==
    IF input_file.width = target_width /\ input_file.height = target_height
    THEN "null"
    ELSE IF I64Mul(input_file.width, target_height) = I64Mul(input_file.height, target_width)
    THEN "scale=" \o I64Display(target_width) \o ":" \o I64Display(target_height)
    ELSE "scale=" \o I64Display(target_width) \o ":" \o I64Display(target_height)
         \o ":force_original_aspect_ratio=decrease,pad="
         \o I64Display(target_width) \o ":" \o I64Display(target_height)
         \o ":(ow-iw)/2:(oh-ih)/2"

\* one of the two products of video.rs:428 overflows; they are computed where
\* the test of video.rs:426 fails
part_video_filter_code_overflows(input_file, target_width, target_height) ==
    /\ ~(input_file.width = target_width /\ input_file.height = target_height)
    /\ \/ I64MulOverflows(input_file.width, target_height)
       \/ I64MulOverflows(input_file.height, target_width)

\* a mutant of part_audio_filter_code: every input's own audio is referenced
part_audio_filter_code_stream_only(index, input_file) ==
    "[" \o ToString(index) \o ":a:0]anull[a" \o ToString(index) \o "];"

\* the audio statement of one input, video.rs:438-442
part_audio_filter_code(index, input_file) ==
    IF input_file.alternative_null_audio_duration.some
    THEN "anullsrc=d=" \o DisplayF64(input_file.alternative_null_audio_duration.val)
         \o "[a" \o ToString(index) \o "];"
    ELSE "[" \o ToString(index) \o ":a:0]anull[a" \o ToString(index) \o "];"

\* the last statement, video.rs:446-450
concat_filter_code(files) ==
    Concat([i \in 1..Len(files) |->
              "[v" \o ToString(i - 1) \o "]" \o "[a" \o ToString(i - 1) \o "]"])
    \o "concat=n=" \o ToString(Len(files)) \o ":v=1:a=1[vout][aout]"

\* the statements get_avfilter_code pushes, in the order it pushes them
avfilter_statements(files) ==
    LET target_width  == MaxOf([i \in 1..Len(files) |-> files[i].width])
        target_height == MaxOf([i \in 1..Len(files) |-> files[i].height])
        video(i) == "[" \o ToString(i - 1) \o ":v:0]"
                    \o part_video_filter_code(files[i], target_width, target_height)
                    \o "[v" \o ToString(i - 1) \o "];"
    IN  [k \in 1..(2 * Len(files)) |->
            IF k % 2 = 1 THEN video((k + 1) \div 2)
            ELSE part_audio_filter_code((k \div 2) - 1, files[k \div 2])]
        \o <<concat_filter_code(files)>>

\* get_avfilter_code, video.rs:416-455 (its caller passes a non-empty Vec)
get_avfilter_code(files) == Concat(avfilter_statements(files))

\* a multiplication of get_avfilter_code overflows, video.rs:425-428
get_avfilter_code_overflows(files) ==
    LET target_width  == MaxOf([i \in 1..Len(files) |-> files[i].width])
        target_height == MaxOf([i \in 1..Len(files) |-> files[i].height])
    IN  \E i \in 1..Len(files) :
            part_video_filter_code_overflows(files[i], target_width, target_height)

\* The same statements by their parts, as the format strings of video.rs:434,
\* 438-442 and 446-448 lay them out: the pads the statement reads, the filter,
\* the pads it writes and the separator (n is the count in "concat=n=<n>").
FilterStatement(uses, filter, n, defines, separator) ==
    [uses |-> uses, filter |-> filter, n |-> n, defines |-> defines, separator |-> separator]

\* "[{0:}:v:0]{1:}[v{0:}];", video.rs:434
video_filter_statement(index, input_file, target_width, target_height) ==
    FilterStatement(<<"[" \o ToString(index) \o ":v:0]">>,
                    part_video_filter_code(input_file, target_width, target_height), 0,
                    <<"[v" \o ToString(index) \o "]">>, ";")

\* "anullsrc=d={:}[a{:}];" or "[{0:}:a:0]anull[a{0:}];", video.rs:438-442
audio_filter_statement(index, input_file) ==
    IF input_file.alternative_null_audio_duration.some
    THEN FilterStatement(<<>>,
                         "anullsrc=d=" \o DisplayF64(input_file.alternative_null_audio_duration.val),
                         0, <<"[a" \o ToString(index) \o "]">>, ";")
    ELSE FilterStatement(<<"[" \o ToString(index) \o ":a:0]">>, "anull", 0,
                         <<"[a" \o ToString(index) \o "]">>, ";")

\* "{:}concat=n={:}:v=1:a=1[vout][aout]", video.rs:446-450
concat_filter_statement(files) ==
    FilterStatement([k \in 1..(2 * Len(files)) |->
                        IF k % 2 = 1 THEN "[v" \o ToString(((k + 1) \div 2) - 1) \o "]"
                        ELSE "[a" \o ToString((k \div 2) - 1) \o "]"],
                    "concat", Len(files), <<"[vout]", "[aout]">>, "")

\* a mutant of avfilter_graph: every audio statement writes the pad [a0]
avfilter_graph_first_audio_pad(files) ==
    LET target_width  == MaxOf([i \in 1..Len(files) |-> files[i].width])
        target_height == MaxOf([i \in 1..Len(files) |-> files[i].height])
    IN  [k \in 1..(2 * Len(files)) |->
            IF k % 2 = 1
            THEN video_filter_statement(((k + 1) \div 2) - 1, files[(k + 1) \div 2],
                                        target_width, target_height)
            ELSE audio_filter_statement(0, files[k \div 2])]
        \o <<concat_filter_statement(files)>>

\* the statements of get_avfilter_code by their parts, video.rs:416-455
avfilter_graph(files) ==
    LET target_width  == MaxOf([i \in 1..Len(files) |-> files[i].width])
        target_height == MaxOf([i \in 1..Len(files) |-> files[i].height])
    IN  [k \in 1..(2 * Len(files)) |->
            IF k % 2 = 1
            THEN video_filter_statement(((k + 1) \div 2) - 1, files[(k + 1) \div 2],
                                        target_width, target_height)
            ELSE audio_filter_statement((k \div 2) - 1, files[k \div 2])]
        \o <<concat_filter_statement(files)>>

\* the text of a statement
filter_code_statement(statement) ==
    Concat(statement.uses) \o statement.filter
    \o (IF statement.filter = "concat"
        THEN "=n=" \o ToString(statement.n) \o ":v=1:a=1" ELSE "")
    \o Concat(statement.defines) \o statement.separator

-----------------------------------------------------------------------------
(* The inline pipeline of main.rs:64-170, over the files its probing loop  *)
(* accepted (it panics on any other).                                      *)

PartFile(object_path, width, height, has_audio) ==
    [object_path |-> object_path, width |-> width, height |-> height, has_audio |-> has_audio]

\* max_width, max_height, main.rs:71-72 and 92-97
main_max(xs) == IF xs = <<>> THEN 0 ELSE Max2(0, MaxOf(xs))

\* best_object_path after the loop, main.rs:74-75 and 98-101: the index of the
\* first file whose area exceeds every area before it, 0 for None
RECURSIVE main_best_scan(_, _, _, _)
main_best_scan(part_files, i, best_resolution, best_index) ==
    IF i > Len(part_files) THEN best_index
    ELSE LET resolution == I64Mul(part_files[i].width, part_files[i].height)
         IN  IF I64Gt(resolution, best_resolution)
             THEN main_best_scan(part_files, i + 1, resolution, i)
             ELSE main_best_scan(part_files, i + 1, best_resolution, best_index)

main_best_object_path(part_files) ==
    LET i == main_best_scan(part_files, 1, 0, 0)
    IN  IF i = 0 THEN NoneInt ELSE SomeInt(part_files[i].object_path)

\* the statements of main's filter_code, main.rs:121-145, as printed
main_filter_statements(part_files) ==
    LET max_width  == main_max([i \in 1..Len(part_files) |-> part_files[i].width])
        max_height == main_max([i \in 1..Len(part_files) |-> part_files[i].height])
        object_count == Len(part_files)
    IN  [i \in 1..Len(part_files) |->
            "[" \o ToString(i - 1) \o ":v:0]"
            \o part_video_filter_code(part_files[i], max_width, max_height)
            \o "[v" \o ToString(i - 1) \o "];"]
        \o << Concat([i \in 1..Len(part_files) |->
                       "[v" \o ToString(i - 1) \o "]" \o
                       (IF part_files[i].has_audio
                        THEN "[" \o ToString(i - 1) \o ":a:0]" ELSE "")])
              \o "concat=n=" \o ToString(object_count) \o ":v=1:a=1[vout][aout]" >>

-----------------------------------------------------------------------------
(* The reference input and the quality search, video.rs:131 and 641-683 *)

MAX_CRF == 55

\* Iterator::max_by_key over a non-empty Vec: the fold of core::iter keeps the
\* later element unless the earlier one compares Greater; the index is returned
RECURSIVE max_by_key_area(_, _, _)
max_by_key_area(files, i, best_index) ==
    IF i > Len(files) THEN best_index
    ELSE IF I64Gt(I64Mul(files[best_index].width, files[best_index].height),
                  I64Mul(files[i].width, files[i].height))
    THEN max_by_key_area(files, i + 1, best_index)
    ELSE max_by_key_area(files, i + 1, i)

\* best_input_file, video.rs:131
best_input_file(files) == files[max_by_key_area(files, 2, 1)]

\* a key of max_by_key overflows, video.rs:131: the key is computed of every
\* element
best_input_file_overflows(files) ==
    \E i \in 1..Len(files) : I64MulOverflows(files[i].width, files[i].height)

\* min_crf + 1 on u8, video.rs:653: beyond 255 the addition panics where the
\* build checks overflow (debug) and wraps where it does not (release)
U8Add(a, b, overflow_checks) ==
    IF a + b <= U8Max THEN [panic |-> FALSE, val |-> a + b]
    ELSE IF overflow_checks THEN [panic |-> TRUE, val |-> 0]
    ELSE [panic |-> FALSE, val |-> (a + b) % (U8Max + 1)]

\* the path of a file, as it is written into a command line
PathArg(path) == "input" \o ToString(path) \o ".mp4"

\* the arguments of the ab-av1 command, video.rs:649-659, given min_crf + 1
get_best_crf_args(video_path, enough_vmaf, min_crf_plus_one) ==
    << "crf-search",
       "--min-vmaf", ToString(enough_vmaf),
       "--min-crf", ToString(min_crf_plus_one),
       "--max-crf", ToString(MAX_CRF),
       "--max-encoded-percent", "100",
       "--enc", "fps_mode=passthrough",
       "--enc", "dn",
       "--input", PathArg(video_path) >>

\* Result<(u8, Option<f64>), Error>, of get_best_crf and of encode_best_effort
NoResult == [kind |-> "none", crf |-> 0, vmaf |-> NoneF64, err |-> NoError]

OkResult(crf, vmaf) == [kind |-> "Ok", crf |-> crf, vmaf |-> vmaf, err |-> NoError]

ErrResult(e) == [kind |-> "Err", crf |-> 0, vmaf |-> NoneF64, err |-> e]

\* a mutant of get_best_crf_impl: the not-found text of stderr is looked for
\* before the exit status
get_best_crf_impl_stderr_first(video_path, enough_vmaf, min_crf, output) ==
    IF ~output.started
    THEN ErrResult(Error("AbAv1CommandProcessFailed", 0, 0, video_path, <<>>))
    ELSE IF AB_AV1_STDERR_CHECK_GOOD_CRF_NOT_FOUND_REGEX(output.stderr)
    THEN OkResult(min_crf, NoneF64)
    ELSE IF ~output.success
    THEN ErrResult(Error("UnknownAbAv1ErrorMessage", 0, 0, video_path, output.stderr))
    ELSE LET caps == AB_AV1_STDOUT_RETRIEVE_CRF_REGEX(output.stdout)
             crf  == ParseU8(caps.c1)
             vmaf == ParseF64(caps.c2)
         IN  IF ~caps.matched \/ ~crf.some \/ ~vmaf.some
             THEN ErrResult(Error("InvalidAbAv1Output", 0, 0, video_path, output.stdout))
             ELSE OkResult(crf.val, vmaf)

\* a mutant of get_best_crf_impl: every failure of the search is taken for
\* "no crf found"
get_best_crf_impl_any_failure(video_path, enough_vmaf, min_crf, output) ==
    IF ~output.started
    THEN ErrResult(Error("AbAv1CommandProcessFailed", 0, 0, video_path, <<>>))
    ELSE IF output.success
    THEN LET caps == AB_AV1_STDOUT_RETRIEVE_CRF_REGEX(output.stdout)
             crf  == ParseU8(caps.c1)
             vmaf == ParseF64(caps.c2)
         IN  IF ~caps.matched \/ ~crf.some \/ ~vmaf.some
             THEN ErrResult(Error("InvalidAbAv1Output", 0, 0, video_path, output.stdout))
             ELSE OkResult(crf.val, vmaf)
    ELSE OkResult(min_crf, NoneF64)

\* get_best_crf_impl after the command is built, video.rs:661-682; output is
\* what ab_av1_cmd.output() gave
get_best_crf_impl(video_path, enough_vmaf, min_crf, output) ==
    IF ~output.started
    THEN ErrResult(Error("AbAv1CommandProcessFailed", 0, 0, video_path, <<>>))
    ELSE IF output.success
    THEN LET caps == AB_AV1_STDOUT_RETRIEVE_CRF_REGEX(output.stdout)
             crf  == ParseU8(caps.c1)
             vmaf == ParseF64(caps.c2)
         IN  IF ~caps.matched \/ ~crf.some \/ ~vmaf.some
             THEN ErrResult(Error("InvalidAbAv1Output", 0, 0, video_path, output.stdout))
             ELSE OkResult(crf.val, vmaf)
    ELSE IF ~AB_AV1_STDERR_CHECK_GOOD_CRF_NOT_FOUND_REGEX(output.stderr)
    THEN ErrResult(Error("UnknownAbAv1ErrorMessage", 0, 0, video_path, output.stderr))
    ELSE OkResult(min_crf, NoneF64)

-----------------------------------------------------------------------------
(* Texts the external programs print, and the files probed, in this model *)

TXT_FFMPEG_6_0 ==
    <<"f", "f", "m", "p", "e", "g", " ", "v", "e", "r", "s", "i", "o", "n",
      " ", "6", ".", "0", " ", "C", "o", "p", "y", "r", "i", "g", "h", "t">>

TXT_FFMPEG_6_1_1 ==
    <<"f", "f", "m", "p", "e", "g", " ", "v", "e", "r", "s", "i", "o", "n",
      " ", "6", ".", "1", ".", "1", "-", "x", "\n">>

TXT_FFMPEG_5_1 ==
    <<"f", "f", "m", "p", "e", "g", " ", "v", "e", "r", "s", "i", "o", "n",
      " ", "5", ".", "1">>

TXT_FFMPEG_7_0 ==
    <<"f", "f", "m", "p", "e", "g", " ", "v", "e", "r", "s", "i", "o", "n",
      " ", "7", ".", "0">>

TXT_FFMPEG_256_0 ==
    <<"f", "f", "m", "p", "e", "g", " ", "v", "e", "r", "s", "i", "o", "n",
      " ", "2", "5", "6", ".", "0">>

TXT_FFMPEG_6_300 ==
    <<"f", "f", "m", "p", "e", "g", " ", "v", "e", "r", "s", "i", "o", "n",
      " ", "6", ".", "3", "0", "0">>

TXT_FFMPEG_N6_0 ==
    <<"f", "f", "m", "p", "e", "g", " ", "v", "e", "r", "s", "i", "o", "n",
      " ", "n", "6", ".", "0">>

TXT_AB_AV1_0_7_1 ==
    <<"a", "b", "-", "a", "v", "1", " ", "0", ".", "7", ".", "1", "\n">>

TXT_AB_AV1_0_7_12 ==
    <<"a", "b", "-", "a", "v", "1", " ", "0", ".", "7", ".", "1", "2",
      "\n">>

TXT_AB_AV1_0_8_0 ==
    <<"a", "b", "-", "a", "v", "1", " ", "0", ".", "8", ".", "0", "\n">>

TXT_AB_AV1_0_6_9 ==
    <<"a", "b", "-", "a", "v", "1", " ", "0", ".", "6", ".", "9">>

TXT_AB_AV1_1_0_0 ==
    <<"a", "b", "-", "a", "v", "1", " ", "1", ".", "0", ".", "0">>

TXT_AB_AV1_0_300_1 ==
    <<"a", "b", "-", "a", "v", "1", " ", "0", ".", "3", "0", "0", ".", "1">>

TXT_AB_AV1_0_712 ==
    <<"a", "b", "-", "a", "v", "1", " ", "0", ".", "7", "1", "2">>

TXT_GARBAGE ==
    <<"g", "a", "r", "b", "a", "g", "e">>

TXT_CRF_32 ==
    <<"c", "r", "f", " ", "3", "2", " ", "V", "M", "A", "F", " ", "9", "5",
      ".", "5", " ", "p", "r", "e", "d", "i", "c", "t", "e", "d">>

TXT_CRF_55 ==
    <<" ", " ", "c", "r", "f", " ", "5", "5", " ", "V", "M", "A", "F", " ",
      "9", "7", "\n">>

TXT_CRF_256 ==
    <<"c", "r", "f", " ", "2", "5", "6", " ", "V", "M", "A", "F", " ", "9",
      "0">>

TXT_NEWLINE ==
    <<"\n">>

TXT_NOT_FOUND ==
    <<"E", "r", "r", "o", "r", ":", " ", "F", "a", "i", "l", "e", "d", " ",
      "t", "o", " ", "f", "i", "n", "d", " ", "a", " ", "s", "u", "i", "t",
      "a", "b", "l", "e", " ", "c", "r", "f", "\n">>

TXT_NOT_FOUND_THEN_MORE ==
    <<"F", "a", "i", "l", "e", "d", " ", "t", "o", " ", "f", "i", "n", "d",
      " ", "a", " ", "s", "u", "i", "t", "a", "b", "l", "e", " ", "c", "r",
      "f", ",", " ", "a", "n", "d", " ", "m", "o", "r", "e">>

TXT_SOME_ERROR ==
    <<"s", "o", "m", "e", " ", "e", "r", "r", "o", "r">>

\* what "ffmpeg -version" can give
FfmpegVersionOutputs ==
    {NotStarted} \cup
    {Exited(0, t, <<>>) : t \in {TXT_FFMPEG_6_0, TXT_FFMPEG_6_1_1, TXT_FFMPEG_5_1, TXT_FFMPEG_7_0,
                                 TXT_FFMPEG_256_0, TXT_FFMPEG_6_300, TXT_FFMPEG_N6_0, <<>>}}

\* what "ab-av1 --version" can give
AbAv1VersionOutputs ==
    {NotStarted} \cup
    {Exited(0, t, <<>>) : t \in {TXT_AB_AV1_0_7_1, TXT_AB_AV1_0_7_12, TXT_AB_AV1_0_8_0,
                                 TXT_AB_AV1_0_6_9, TXT_AB_AV1_1_0_0, TXT_AB_AV1_0_300_1,
                                 TXT_GARBAGE}}

\* what "ab-av1 crf-search" can give
SearchOutputs ==
    {NotStarted} \cup
    {Exited(0, t, <<>>) : t \in {TXT_CRF_32, TXT_CRF_55, TXT_CRF_256, TXT_NEWLINE}} \cup
    {Exited(1, <<>>, t) : t \in {TXT_NOT_FOUND, TXT_NOT_FOUND_THEN_MORE, TXT_SOME_ERROR}} \cup
    {Exited(0, TXT_CRF_32, TXT_NOT_FOUND), Exited(0, TXT_NEWLINE, TXT_NOT_FOUND),
     Exited(1, TXT_CRF_32, TXT_SOME_ERROR), Exited(2, TXT_CRF_32, TXT_NOT_FOUND)}

\* what the encoder run can give
EncodeOutputs ==
    {NotStarted, Exited(0, <<>>, <<>>), Exited(0, <<>>, TXT_SOME_ERROR),
     Exited(1, <<>>, TXT_SOME_ERROR)}

VideoStream(width, height, duration) == Stream(SomeStr("video"), width, height, duration)

AudioStream == Stream(SomeStr("audio"), NoneInt, NoneInt, SomeText(<<"1", ".", "0", "2", "4">>))

\* the files of one run: test videos of the repository (invalid.mp4, a.mp4,
\* va-300x400.mp4) and three of other sizes, one of them without audio
PipelineProbes ==
    { ProbeFailed,
      Probed(SomeText(<<"1", ".", "0">>), <<AudioStream>>),
      Probed(SomeText(<<"1", ".", "0">>),
             <<VideoStream(SomeInt(300), SomeInt(400), SomeText(<<"1", ".", "0">>)), AudioStream>>),
      Probed(SomeText(<<"2", ".", "5">>),
             <<AudioStream, VideoStream(SomeInt(400), SomeInt(300), NoneText)>>),
      Probed(NoneText,
             <<VideoStream(SomeInt(150), SomeInt(200), SomeText(<<"3", ".", "5">>))>>),
      Probed(NoneText, <<VideoStream(SomeInt(640), SomeInt(480), NoneText)>>) }

\* the u8 values of enough_vmaf and of min_crf in this model
EnoughVmafValues == {0, 95}

MinCrfValues == {MAX_CRF - 2, MAX_CRF, U8Max}

-----------------------------------------------------------------------------
(* encode_best_effort_impl, video.rs:97-169, one action for each external  *)
(* process it waits for (and one for the command it builds in between).    *)

\* an external process the program started
Started(proc, path) == [proc |-> proc, path |-> path]

NoCall ==
    [fn |-> "none", files |-> <<>>, expected_major_version |-> 0,
     min_minor_version |-> 0, output |-> NotStarted, re |-> "", probe |-> ProbeFailed]

NoRet ==
    [returned |-> FALSE, statements |-> <<>>, code |-> "", check |-> Ok,
     analyzed |-> NoInputFile, best |-> NoneInt, duration |-> NoneF64, graph |-> <<>>]

Init ==
    /\ pc = "check_ffmpeg"
    /\ args \in [paths : 0..MaxPaths, enough_vmaf : EnoughVmafValues, min_crf : MinCrfValues]
    /\ analysis = <<>>
    /\ input_files = <<>>
    /\ ffmpeg_cmd = <<>>
    /\ search_cmd = <<>>
    /\ best = NoResult
    /\ result = NoResult
    /\ log = <<>>
    /\ version_outputs = <<>>
    /\ search_outputs = <<>>
    /\ encode_outputs = <<>>
    /\ u_call = NoCall
    /\ u_ret = NoRet

Return(r) ==
    /\ pc' = "returned"
    /\ result' = r

\* video.rs:101
CheckFfmpegVersion ==
    /\ pc = "check_ffmpeg"
    /\ \E output \in FfmpegVersionOutputs :
         LET r == check_command(6, 0, output, "FFMPEG_STDOUT_RETRIEVE_VERSION_REGEX")
         IN  /\ IF r.ok THEN pc' = "check_ab_av1" /\ result' = result
                ELSE Return(ErrResult(r.err))
             /\ version_outputs' = Append(version_outputs, output)
    /\ log' = Append(log, Started("ffmpeg -version", 0))
    /\ UNCHANGED <<args, analysis, input_files, ffmpeg_cmd, search_cmd, best,
                   search_outputs, encode_outputs, u_call, u_ret>>

\* a mutant of CheckAbAv1Version: the result of the check is dropped
CheckAbAv1Version_unchecked ==
    /\ pc = "check_ab_av1"
    /\ \E output \in AbAv1VersionOutputs : version_outputs' = Append(version_outputs, output)
    /\ pc' = "analyze"
    /\ log' = Append(log, Started("ab-av1 --version", 0))
    /\ UNCHANGED <<args, analysis, input_files, ffmpeg_cmd, search_cmd, best, result,
                   search_outputs, encode_outputs, u_call, u_ret>>

\* video.rs:102
CheckAbAv1Version ==
    /\ pc = "check_ab_av1"
    /\ \E output \in AbAv1VersionOutputs :
         LET r == check_command(0, 7, output, "AB_AV1_STDOUT_RETRIEVE_VERSION_REGEX")
         IN  /\ IF r.ok THEN pc' = "analyze" /\ result' = result
                ELSE Return(ErrResult(r.err))
             /\ version_outputs' = Append(version_outputs, output)
    /\ log' = Append(log, Started("ab-av1 --version", 0))
    /\ UNCHANGED <<args, analysis, input_files, ffmpeg_cmd, search_cmd, best,
                   search_outputs, encode_outputs, u_call, u_ret>>

\* a mutant of filter_map_collect: a usable input is put in front
filter_map_collect_in_front(collected, analyzed) ==
    IF analyzed.some THEN <<analyzed.val>> \o collected ELSE collected

\* one step of .filter_map(analyze_video_file).collect(), video.rs:104-106
filter_map_collect(collected, analyzed) ==
    IF analyzed.some THEN Append(collected, analyzed.val) ELSE collected

\* video.rs:104-106, the next path of input_video_paths
AnalyzeVideoFile ==
    /\ pc = "analyze"
    /\ Len(analysis) < args.paths
    /\ \E probe \in PipelineProbes :
         LET path == Len(analysis) + 1
             analyzed == analyze_video_file(path, probe)
         IN  /\ analysis' = Append(analysis, analyzed)
             /\ input_files' = filter_map_collect(input_files, analyzed)
             /\ log' = Append(log, Started("ffprobe", path))
    /\ UNCHANGED <<pc, args, ffmpeg_cmd, search_cmd, best, result, version_outputs,
                   search_outputs, encode_outputs, u_call, u_ret>>

RECURSIVE Flatten(_)
Flatten(seqs) == IF seqs = <<>> THEN <<>> ELSE Head(seqs) \o Flatten(Tail(seqs))

\* a mutant of ffmpeg_cmd_inputs: the filter program is passed for one input too
ffmpeg_cmd_inputs_always_filter(files) ==
    <<"-y">> \o
    Flatten([i \in 1..Len(files) |-> <<"-i", PathArg(files[i].path)>>]) \o
    <<"-filter_complex", get_avfilter_code(files), "-map", "[vout]", "-map", "[aout]">>

\* a mutant of ffmpeg_cmd_inputs: the inputs are given last first
ffmpeg_cmd_inputs_reversed(files) ==
    <<"-y">> \o
    Flatten([i \in 1..Len(files) |-> <<"-i", PathArg(files[Len(files) + 1 - i].path)>>]) \o
    (IF Len(files) >= 2
     THEN <<"-filter_complex", get_avfilter_code(files), "-map", "[vout]", "-map", "[aout]">>
     ELSE <<>>)

\* the encoder command before the search, video.rs:117-128
ffmpeg_cmd_inputs(files) ==
    <<"-y">> \o
    Flatten([i \in 1..Len(files) |-> <<"-i", PathArg(files[i].path)>>]) \o
    (IF Len(files) >= 2
     THEN <<"-filter_complex", get_avfilter_code(files), "-map", "[vout]", "-map", "[aout]">>
     ELSE <<>>)

\* video.rs:108-128: no input left is an error, else the command is begun
BuildCommand ==
    /\ pc = "analyze"
    /\ Len(analysis) = args.paths
    /\ IF Len(input_files) = 0
       THEN /\ Return(ErrResult(Error("NoAvailableVideoStream", 0, 0, 0, <<>>)))
            /\ ffmpeg_cmd' = ffmpeg_cmd
       ELSE \E overflow_checks \in BOOLEAN :
              IF /\ overflow_checks /\ Len(input_files) >= 2
                 /\ get_avfilter_code_overflows(input_files)
              THEN /\ pc' = "panicked"
                   /\ UNCHANGED <<ffmpeg_cmd, result>>
              ELSE /\ pc' = "search"
                   /\ ffmpeg_cmd' = ffmpeg_cmd_inputs(input_files)
                   /\ result' = result
    /\ UNCHANGED <<args, analysis, input_files, search_cmd, best, log, version_outputs,
                   search_outputs, encode_outputs, u_call, u_ret>>

\* the encoder command after the search, video.rs:142-150
ffmpeg_cmd_encode(cmd, best_crf) ==
    cmd \o <<"-c:v", "libsvtav1", "-crf", ToString(best_crf),
             "-pix_fmt", "yuv420p10le", "-preset", "8", "output.mp4">>

\* a mutant of GetBestCrf: an error of the search is replaced by min_crf
GetBestCrf_fallback ==
    /\ pc = "search"
    /\ \E output \in SearchOutputs :
         LET best_input == best_input_file(input_files)
             r == get_best_crf_impl(best_input.path, args.enough_vmaf, args.min_crf, output)
             used == IF r.kind = "Ok" THEN r ELSE OkResult(args.min_crf, NoneF64)
         IN  /\ search_cmd' = get_best_crf_args(best_input.path, args.enough_vmaf,
                                                (args.min_crf + 1) % (U8Max + 1))
             /\ log' = Append(log, Started("ab-av1 crf-search", best_input.path))
             /\ search_outputs' = Append(search_outputs, output)
             /\ pc' = "encode"
             /\ best' = used
             /\ ffmpeg_cmd' = ffmpeg_cmd_encode(ffmpeg_cmd, used.crf)
             /\ result' = result
    /\ UNCHANGED <<args, analysis, input_files, version_outputs, encode_outputs, u_call, u_ret>>

\* video.rs:131-150: get_best_crf on the best input
GetBestCrf ==
    /\ pc = "search"
    /\ \E overflow_checks \in BOOLEAN :
         LET best_input == best_input_file(input_files)
             floor == U8Add(args.min_crf, 1, overflow_checks)
         IN  IF floor.panic \/ (overflow_checks /\ best_input_file_overflows(input_files))
             THEN /\ pc' = "panicked"
                  /\ UNCHANGED <<search_cmd, best, result, log, ffmpeg_cmd, search_outputs>>
             ELSE \E output \in SearchOutputs :
                    LET r == get_best_crf_impl(best_input.path, args.enough_vmaf,
                                               args.min_crf, output)
                    IN  /\ search_cmd' = get_best_crf_args(best_input.path,
                                                           args.enough_vmaf, floor.val)
                        /\ log' = Append(log, Started("ab-av1 crf-search", best_input.path))
                        /\ search_outputs' = Append(search_outputs, output)
                        /\ IF r.kind = "Ok"
                           THEN /\ pc' = "encode"
                                /\ best' = r
                                /\ ffmpeg_cmd' = ffmpeg_cmd_encode(ffmpeg_cmd, r.crf)
                                /\ result' = result
                           ELSE /\ Return(r)
                                /\ UNCHANGED <<best, ffmpeg_cmd>>
    /\ UNCHANGED <<args, analysis, input_files, version_outputs, encode_outputs, u_call, u_ret>>

\* a mutant of RunFfmpeg: a failed encoder run is tried again
RunFfmpeg_retry ==
    /\ pc = "encode"
    /\ \E output \in EncodeOutputs :
         /\ IF ~output.started \/ ~output.success
            THEN pc' = "encode" /\ result' = result
            ELSE Return(OkResult(best.crf, best.vmaf))
         /\ encode_outputs' = <<output>>
    /\ log' = Append(log, Started("ffmpeg", 0))
    /\ UNCHANGED <<args, analysis, input_files, ffmpeg_cmd, search_cmd, best, version_outputs,
                   search_outputs, u_call, u_ret>>

\* a mutant of RunFfmpeg: the exit status of the encoder is not read
RunFfmpeg_status_ignored ==
    /\ pc = "encode"
    /\ \E output \in EncodeOutputs :
         /\ IF ~output.started
            THEN Return(ErrResult(Error("FfmpegCommandProcessFailed", 0, 0, 0, <<>>)))
            ELSE Return(OkResult(best.crf, best.vmaf))
         /\ encode_outputs' = Append(encode_outputs, output)
    /\ log' = Append(log, Started("ffmpeg", 0))
    /\ UNCHANGED <<args, analysis, input_files, ffmpeg_cmd, search_cmd, best, version_outputs,
                   search_outputs, u_call, u_ret>>

\* video.rs:153-168: the encoder runs once
RunFfmpeg ==
    /\ pc = "encode"
    /\ \E output \in EncodeOutputs :
         /\ IF ~output.started
            THEN Return(ErrResult(Error("FfmpegCommandProcessFailed", 0, 0, 0, <<>>)))
            ELSE IF ~output.success
            THEN Return(ErrResult(Error("FfmpegCommandExitAbnormally", output.code, 0, 0,
                                        output.stderr)))
            ELSE Return(OkResult(best.crf, best.vmaf))
         /\ encode_outputs' = Append(encode_outputs, output)
    /\ log' = Append(log, Started("ffmpeg", 0))
    /\ UNCHANGED <<args, analysis, input_files, ffmpeg_cmd, search_cmd, best, version_outputs,
                   search_outputs, u_call, u_ret>>

Next ==
    \/ CheckFfmpegVersion
    \/ CheckAbAv1Version
    \/ AnalyzeVideoFile
    \/ BuildCommand
    \/ GetBestCrf
    \/ RunFfmpeg

Spec == Init /\ [][Next]_vars

-----------------------------------------------------------------------------
(* Direct calls of the functions, as the unit tests of video.rs make them,
   and of the inline filter builder of main.rs *)

F64Of(s) == ParseF64(s).val

\* the inputs of test_get_avfilter_code::it_works, video.rs:463-484
TestAvfilterInputs ==
    { <<InputFile(1, 300, 100, NoneF64), InputFile(2, 300, 100, NoneF64)>>,
      <<InputFile(1, 300, 100, NoneF64), InputFile(2, 150, 50, NoneF64)>>,
      <<InputFile(1, 300, 100, NoneF64), InputFile(2, 50, 150, NoneF64)>>,
      <<InputFile(1, 300, 100, SomeF64(F64Of(<<"3", ".", "5">>))),
        InputFile(2, 300, 100, NoneF64)>>,
      <<InputFile(1, 300, 100, NoneF64),
        InputFile(2, 300, 100, SomeF64(F64Of(<<"1", "0", ".", "5">>)))>> }

\* every analyzed input of the small sizes, with and without its own audio
InputShapes ==
    { InputFile(0, w, h, a) :
        w \in 0..MaxDim, h \in 0..MaxDim, a \in {NoneF64, SomeF64(F64Of(<<"3", ".", "5">>))} }

\* the cases of test_check_command::it_works, video.rs:294-308, and the
\* neighbours of each
TXT_ECHO_0_0 == <<"0", ".", "0", "\n">>

TXT_ECHO_5_5 == <<"5", ".", "5", "\n">>

TXT_ECHO_4_5 == <<"4", ".", "5", "\n">>

TXT_ECHO_6_5 == <<"6", ".", "5", "\n">>

TXT_ECHO_5_6 == <<"5", ".", "6", "\n">>

TXT_ECHO_5_4 == <<"5", ".", "4", "\n">>

TXT_ECHO_255_256 == <<"2", "5", "5", ".", "2", "5", "6", "\n">>

TXT_ECHO_256_255 == <<"2", "5", "6", ".", "2", "5", "5", "\n">>

TXT_ECHO_255_255 == <<"2", "5", "5", ".", "2", "5", "5", "\n">>

\* "ffmpeg versio 6.0" and "ffmpeg version 6.0rc1"
TXT_FFMPEG_VERSIO_6_0 ==
    <<"f", "f", "m", "p", "e", "g", " ", "v", "e", "r", "s", "i", "o", " ", "6", ".", "0">>

TXT_FFMPEG_6_0_RC1 ==
    <<"f", "f", "m", "p", "e", "g", " ", "v", "e", "r", "s", "i", "o", "n",
      " ", "6", ".", "0", "r", "c", "1">>

CheckCommandOutputs ==
    FfmpegVersionOutputs \cup AbAv1VersionOutputs \cup
    { Exited(0, t, <<>>) :
        t \in {TXT_ECHO_0_0, TXT_ECHO_5_5, TXT_ECHO_4_5, TXT_ECHO_6_5, TXT_ECHO_5_6,
               TXT_ECHO_5_4, TXT_ECHO_255_256, TXT_ECHO_256_255, TXT_ECHO_255_255,
               TXT_AB_AV1_0_712, TXT_FFMPEG_VERSIO_6_0, TXT_FFMPEG_6_0_RC1} }
    \cup { Exited(1, TXT_FFMPEG_6_0, <<>>), Exited(1, <<>>, TXT_SOME_ERROR) }

CheckCommandCalls ==
    [fn : {"check_command"}, files : {<<>>},
     expected_major_version : {0, 5, 6, U8Max}, min_minor_version : {0, 5, 7, U8Max},
     output : CheckCommandOutputs,
     re : {"FFMPEG_STDOUT_RETRIEVE_VERSION_REGEX", "AB_AV1_STDOUT_RETRIEVE_VERSION_REGEX",
           "TEST_VERSION_REGEX"},
     probe : {ProbeFailed}]

\* the probes of test_analyze_video_file::it_works, video.rs:370-412, and
\* their neighbours: each field absent, unparsable, negative, zero or usable
AnalyzeVideoStreams ==
    { VideoStream(w, h, d) :
        w \in {NoneInt, SomeInt(-1), SomeInt(0), SomeInt(300)},
        h \in {NoneInt, SomeInt(-1), SomeInt(400)},
        d \in {NoneText, SomeText(<<"N", "/", "A">>), SomeText(<<"1", ".", "5">>)} }

AnalyzeProbes ==
    PipelineProbes \cup
    { Probed(SomeText(<<"1", ".", "0">>),
             <<VideoStream(SomeInt(300), SomeInt(400), SomeText(<<"1", ".", "0">>))>>) } \cup
    { Probed(f, s) :
        f \in {NoneText, SomeText(<<>>), SomeText(<<"2">>)},
        s \in UNION { {<<v>>, <<v, AudioStream>>, <<AudioStream, v>>,
                       <<Stream(NoneStr, NoneInt, NoneInt, NoneText), v>>,
                       <<v, VideoStream(SomeInt(640), SomeInt(480), SomeText(<<"9">>))>>} :
                      v \in AnalyzeVideoStreams } }
    \cup { Probed(NoneText, <<>>),
           Probed(SomeText(<<"i", "n", "f">>), <<VideoStream(SomeInt(300), SomeInt(400), NoneText)>>) }

\* the duration fields of test_get_stream_duration::it_works, video.rs:513-544
\* (absent, "invalid", "1.0"), and further texts f64::from_str accepts
DurationTexts ==
    {NoneText, SomeText(<<"i", "n", "v", "a", "l", "i", "d">>),
     SomeText(<<"1", ".", "0">>), SomeText(<<"2", ".", "5">>), SomeText(<<"1", "e", "2">>),
     SomeText(<<"i", "n", "f">>), SomeText(<<"-", "i", "n", "f">>),
     SomeText(<<"N", "a", "N">>)}

\* a video stream and a format, each with one of the duration fields
DurationProbes ==
    { Probed(f, <<VideoStream(SomeInt(300), SomeInt(400), d)>>) :
        f \in DurationTexts, d \in DurationTexts }

\* Vecs of inputs of dimensions of 2^31 and more, with two of the small ones:
\* areas of 2^64, 2^63, 9 * 2^62 and 2^61, and cross products of 2^66 and 2^65
I64Inputs ==
    { <<InputFile(1, I64Wide(FALSE, 1, 32), I64Wide(FALSE, 1, 32), NoneF64),
        InputFile(2, 1, 1, NoneF64)>>,
      <<InputFile(1, I64Wide(FALSE, 1, 32), I64Wide(FALSE, 1, 31), NoneF64),
        InputFile(2, 2, 1, NoneF64)>>,
      <<InputFile(1, I64Wide(FALSE, 3, 31), I64Wide(FALSE, 3, 31), NoneF64),
        InputFile(2, I64Wide(FALSE, 1, 31), I64Wide(FALSE, 1, 31), NoneF64)>>,
      <<InputFile(1, I64Wide(FALSE, 1, 33), I64Wide(FALSE, 1, 32), NoneF64),
        InputFile(2, I64Wide(FALSE, 1, 32), I64Wide(FALSE, 1, 33), NoneF64)>>,
      <<InputFile(1, I64Wide(FALSE, 1, 32), 2^29, NoneF64),
        InputFile(2, I64Wide(FALSE, 1, 31), 2^28, NoneF64)>>,
      <<InputFile(1, I64Wide(FALSE, 1, 31), 2, NoneF64),
        InputFile(2, 3, 3, NoneF64)>> }

\* the calls a run starts from; "vec" is a Vec<InputFile> under construction,
\* empty or one of the unit test
UnitCalls ==
    { [NoCall EXCEPT !.fn = "vec", !.files = s] : s \in {<<>>} \cup TestAvfilterInputs }
    \cup { [NoCall EXCEPT !.fn = "vec_i64", !.files = s] : s \in I64Inputs }
    \cup CheckCommandCalls
    \cup { [NoCall EXCEPT !.fn = "analyze_video_file", !.probe = p] : p \in AnalyzeProbes }
    \cup { [NoCall EXCEPT !.fn = "get_stream_duration", !.probe = p] : p \in DurationProbes }

UnitInit ==
    /\ pc = "unit"
    /\ args = [paths |-> 0, enough_vmaf |-> 0, min_crf |-> 0]
    /\ analysis = <<>>
    /\ input_files = <<>>
    /\ ffmpeg_cmd = <<>>
    /\ search_cmd = <<>>
    /\ best = NoResult
    /\ result = NoResult
    /\ log = <<>>
    /\ version_outputs = <<>>
    /\ search_outputs = <<>>
    /\ encode_outputs = <<>>
    /\ u_call \in UnitCalls
    /\ u_ret = NoRet

\* one more InputFile in the Vec, its path its position
PushInputFile ==
    /\ pc = "unit" /\ u_call.fn = "vec"
    /\ Len(u_call.files) < MaxInputs
    /\ \E shape \in InputShapes :
         u_call' = [u_call EXCEPT
                       !.files = Append(@, [shape EXCEPT !.path = Len(u_call.files) + 1])]
    /\ UNCHANGED <<pipeline_vars, u_ret>>

\* get_avfilter_code(&input_files), video.rs:416-455
CallGetAvfilterCode ==
    /\ pc = "unit" /\ u_call.fn \in {"vec", "vec_i64"} /\ Len(u_call.files) >= 1
    /\ u_call' = [u_call EXCEPT !.fn = IF u_call.fn = "vec" THEN "get_avfilter_code"
                                       ELSE "get_avfilter_code_i64"]
    /\ \E overflow_checks \in BOOLEAN :
         IF overflow_checks /\ get_avfilter_code_overflows(u_call.files)
         THEN pc' = "panicked" /\ u_ret' = u_ret
         ELSE /\ pc' = pc
              /\ u_ret' = [NoRet EXCEPT !.returned = TRUE,
                                        !.statements = avfilter_statements(u_call.files),
                                        !.graph = avfilter_graph(u_call.files),
                                        !.code = get_avfilter_code(u_call.files)]
    /\ UNCHANGED <<args, analysis, input_files, ffmpeg_cmd, search_cmd, best, result, log,
                   version_outputs, search_outputs, encode_outputs>>

\* the selection input_files.iter().max_by_key(..).unwrap(), video.rs:131
CallBestInputFile ==
    /\ pc = "unit" /\ u_call.fn \in {"vec", "vec_i64"} /\ Len(u_call.files) >= 1
    /\ u_call' = [u_call EXCEPT !.fn = IF u_call.fn = "vec" THEN "best_input_file"
                                       ELSE "best_input_file_i64"]
    /\ \E overflow_checks \in BOOLEAN :
         IF overflow_checks /\ best_input_file_overflows(u_call.files)
         THEN pc' = "panicked" /\ u_ret' = u_ret
         ELSE /\ pc' = pc
              /\ u_ret' = [NoRet EXCEPT !.returned = TRUE,
                                        !.best = SomeInt(best_input_file(u_call.files).path)]
    /\ UNCHANGED <<args, analysis, input_files, ffmpeg_cmd, search_cmd, best, result, log,
                   version_outputs, search_outputs, encode_outputs>>

\* main of main.rs on files analyzed alike: has_audio is the presence of an
\* audio stream, main.rs:84-90; the filter and the reference file, main.rs:91-148
CallMain ==
    /\ pc = "unit" /\ u_call.fn = "vec" /\ Len(u_call.files) > 1
    /\ u_call' = [u_call EXCEPT !.fn = "main"]
    /\ LET part_files == [i \in 1..Len(u_call.files) |->
                            PartFile(u_call.files[i].path, u_call.files[i].width,
                                     u_call.files[i].height,
                                     ~u_call.files[i].alternative_null_audio_duration.some)]
       IN  u_ret' = [NoRet EXCEPT !.returned = TRUE,
                                  !.statements = main_filter_statements(part_files),
                                  !.code = Concat(main_filter_statements(part_files)),
                                  !.best = main_best_object_path(part_files)]
    /\ UNCHANGED pipeline_vars

\* check_command(expected_major_version, min_minor_version, cmd, args, re)
CallCheckCommand ==
    /\ pc = "unit" /\ u_call.fn = "check_command" /\ ~u_ret.returned
    /\ u_ret' = [NoRet EXCEPT !.returned = TRUE,
                              !.check = check_command(u_call.expected_major_version,
                                                      u_call.min_minor_version,
                                                      u_call.output, u_call.re)]
    /\ UNCHANGED <<pipeline_vars, u_call>>

\* analyze_video_file(path)
CallAnalyzeVideoFile ==
    /\ pc = "unit" /\ u_call.fn = "analyze_video_file" /\ ~u_ret.returned
    /\ u_ret' = [NoRet EXCEPT !.returned = TRUE,
                              !.analyzed = analyze_video_file(1, u_call.probe)]
    /\ UNCHANGED <<pipeline_vars, u_call>>

\* get_stream_duration(&stream, &format), video.rs:492-506
CallGetStreamDuration ==
    /\ pc = "unit" /\ u_call.fn = "get_stream_duration" /\ ~u_ret.returned
    /\ u_ret' = [NoRet EXCEPT !.returned = TRUE,
                              !.duration = get_stream_duration(u_call.probe.streams[1],
                                                               u_call.probe.format)]
    /\ UNCHANGED <<pipeline_vars, u_call>>

UnitNext ==
    \/ PushInputFile
    \/ CallGetAvfilterCode
    \/ CallBestInputFile
    \/ CallMain
    \/ CallCheckCommand
    \/ CallAnalyzeVideoFile
    \/ CallGetStreamDuration

SpecUnit == UnitInit /\ [][UnitNext]_vars

-----------------------------------------------------------------------------
(* The statements of the filter program, claims C1 to C4 *)

\* a completed direct call of fn
Returned(fn) == u_call.fn = fn /\ u_ret.returned

\* the per-axis maxima over a sequence of analyzed inputs
IsTargetWidth(files, w) ==
    /\ \E i \in 1..Len(files) : files[i].width = w
    /\ \A i \in 1..Len(files) : files[i].width <= w

IsTargetHeight(files, h) ==
    /\ \E i \in 1..Len(files) : files[i].height = h
    /\ \A i \in 1..Len(files) : files[i].height <= h

TargetWidth(files) == CHOOSE w \in {files[i].width : i \in 1..Len(files)} : IsTargetWidth(files, w)

TargetHeight(files) ==
    CHOOSE h \in {files[i].height : i \in 1..Len(files)} : IsTargetHeight(files, h)

\* the three video statements of input index (from 0) for a target size
NullStatement(index) ==
    "[" \o ToString(index) \o ":v:0]null[v" \o ToString(index) \o "];"

ScaleStatement(index, tw, th) ==
    "[" \o ToString(index) \o ":v:0]scale=" \o ToString(tw) \o ":" \o ToString(th)
    \o "[v" \o ToString(index) \o "];"

PadStatement(index, tw, th) ==
    "[" \o ToString(index) \o ":v:0]scale=" \o ToString(tw) \o ":" \o ToString(th)
    \o ":force_original_aspect_ratio=decrease,pad=" \o ToString(tw) \o ":" \o ToString(th)
    \o ":(ow-iw)/2:(oh-ih)/2[v" \o ToString(index) \o "];"

\* the statements get_avfilter_code emitted for input i (from 1)
VideoStatementOf(i) == u_ret.statements[2 * i - 1]

AudioStatementOf(i) == u_ret.statements[2 * i]

\* C1: for every non-empty sequence of analyzed inputs given to the filter
\* builder, with the target size the per-axis maxima, the video statement of
\* input i is null if its size is the target size, otherwise the plain scale
\* to the target if width * target_height = height * target_width, otherwise
\* the decreasing scale with the centered pad; one of the three, in that order
C1_VideoStatement ==
    Returned("get_avfilter_code") =>
        LET files == u_call.files
            tw == TargetWidth(files)
            th == TargetHeight(files)
        IN  /\ Len(u_ret.statements) = 2 * Len(files) + 1
            /\ u_ret.code = Concat(u_ret.statements)
            /\ \A i \in 1..Len(files) :
                VideoStatementOf(i) =
                    IF files[i].width = tw /\ files[i].height = th
                    THEN NullStatement(i - 1)
                    ELSE IF files[i].width * th = files[i].height * tw
                    THEN ScaleStatement(i - 1, tw, th)
                    ELSE PadStatement(i - 1, tw, th)

\* the second case of test_get_avfilter_code: 300x100 and 150x50 give null and scale
C1_Witness ==
    /\ Returned("get_avfilter_code")
    /\ u_call.files = <<InputFile(1, 300, 100, NoneF64), InputFile(2, 150, 50, NoneF64)>>
    /\ u_ret.code = "[0:v:0]null[v0];[0:a:0]anull[a0];[1:v:0]scale=300:100[v1];[1:a:0]anull[a1];[v0][a0][v1][a1]concat=n=2:v=1:a=1[vout][aout]"

\* C2: for every pair of analyzed inputs given to the filter builder, the
\* program has a decreasing scale with a centered pad if and only if the
\* aspect ratios differ (w1*h2 # w2*h1); with equal aspect ratios and
\* different sizes the non-target input gets the plain scale to the target
\* and no statement of the program pads
C2_PadIffAspectDiffers ==
    (Returned("get_avfilter_code") /\ Len(u_call.files) = 2) =>
        LET files == u_call.files
            tw == TargetWidth(files)
            th == TargetHeight(files)
            pads == {i \in 1..2 : VideoStatementOf(i) = PadStatement(i - 1, tw, th)}
            aspect_differs == files[1].width * files[2].height # files[2].width * files[1].height
            size_differs == files[1].width # files[2].width \/ files[1].height # files[2].height
        IN  /\ (pads # {}) <=> aspect_differs
            /\ (~aspect_differs /\ size_differs) =>
                /\ pads = {}
                /\ \A i \in 1..2 :
                    IF files[i].width = tw /\ files[i].height = th
                    THEN VideoStatementOf(i) = NullStatement(i - 1)
                    ELSE VideoStatementOf(i) = ScaleStatement(i - 1, tw, th)
                /\ \E i \in 1..2 : VideoStatementOf(i) = ScaleStatement(i - 1, tw, th)
                /\ \A i \in 1..2 :
                    AudioStatementOf(i) \in
                        { "[" \o ToString(i - 1) \o ":a:0]anull[a" \o ToString(i - 1) \o "];",
                          "anullsrc=d=3.5[a" \o ToString(i - 1) \o "];" }
                /\ u_ret.statements[5] = "[v0][a0][v1][a1]concat=n=2:v=1:a=1[vout][aout]"

\* the third case of test_get_avfilter_code: 300x100 and 50x150 are both padded to 300x150
C2_Witness ==
    /\ Returned("get_avfilter_code")
    /\ u_call.files = <<InputFile(1, 300, 100, NoneF64), InputFile(2, 50, 150, NoneF64)>>
    /\ u_ret.code = "[0:v:0]scale=300:150:force_original_aspect_ratio=decrease,pad=300:150:(ow-iw)/2:(oh-ih)/2[v0];[0:a:0]anull[a0];[1:v:0]scale=300:150:force_original_aspect_ratio=decrease,pad=300:150:(ow-iw)/2:(oh-ih)/2[v1];[1:a:0]anull[a1];[v0][a0][v1][a1]concat=n=2:v=1:a=1[vout][aout]"

\* C3: for every input i given to the filter builder the audio statement is
\* anullsrc=d=<d>[a<i>] exactly when the input has no audio track of its own,
\* d being its resolved duration, and the pass-through [<i>:a:0]anull[a<i>]
\* exactly when it has one
C3_AudioStatement ==
    Returned("get_avfilter_code") =>
        \A i \in 1..Len(u_call.files) :
            LET d == u_call.files[i].alternative_null_audio_duration
                silence == "anullsrc=d=" \o DisplayF64(d.val) \o "[a" \o ToString(i - 1) \o "];"
                pass == "[" \o ToString(i - 1) \o ":a:0]anull[a" \o ToString(i - 1) \o "];"
            IN  /\ silence # pass
                /\ (AudioStatementOf(i) = silence) <=> d.some
                /\ (AudioStatementOf(i) = pass) <=> ~d.some

\* the fourth case of test_get_avfilter_code: the first input is silent for 3.5 seconds
C3_Witness ==
    /\ Returned("get_avfilter_code")
    /\ Len(u_call.files) = 2
    /\ u_call.files[1].alternative_null_audio_duration = SomeF64(F64Of(<<"3", ".", "5">>))
    /\ ~u_call.files[2].alternative_null_audio_duration.some
    /\ u_ret.code = "[0:v:0]null[v0];anullsrc=d=3.5[a0];[1:v:0]null[v1];[1:a:0]anull[a1];[v0][a0][v1][a1]concat=n=2:v=1:a=1[vout][aout]"

\* the tags [v0][a0]...[v<n-1>][a<n-1>] and the concat filter of n inputs
RECURSIVE ConcatTags(_)
ConcatTags(n) ==
    IF n = 0 THEN ""
    ELSE ConcatTags(n - 1) \o "[v" \o ToString(n - 1) \o "][a" \o ToString(n - 1) \o "]"

ConcatStatement(n) == ConcatTags(n) \o "concat=n=" \o ToString(n) \o ":v=1:a=1[vout][aout]"

\* C4: for every sequence of N inputs a filter program is built for, the final
\* statement lists the 2*N tags [v<i>][a<i>], i = 0..N-1 in input order,
\* with or without own audio, and then concat=n=N:v=1:a=1[vout][aout]
C4_ConcatStatement ==
    (Returned("get_avfilter_code") \/ Returned("main")) =>
        u_ret.statements[Len(u_ret.statements)] = ConcatStatement(Len(u_call.files))

\* C4 for the builder of video.rs alone, where it holds
C4_ConcatStatementVideoRs ==
    Returned("get_avfilter_code") =>
        u_ret.statements[Len(u_ret.statements)] = ConcatStatement(Len(u_call.files))

-----------------------------------------------------------------------------
(* Analysis of one input and the version check, claims C5 and C7 *)

\* a duration text from which a number resolves
Resolves(d) == d.some /\ ParseF64(d.val).some

\* C5: analyze returns None exactly when the probe fails, or no stream is of
\* kind video, or the first video stream lacks its width or its height, or
\* either is negative, or (only without an audio stream) no duration resolves
\* from the stream or the container; otherwise Some, and the input asks for
\* synthetic silence of its duration if and only if it has no audio stream
C5_AnalyzeNoneExactly ==
    Returned("analyze_video_file") =>
        LET probe == u_call.probe
            streams == probe.streams
            videos == {i \in 1..Len(streams) : streams[i].codec_type = SomeStr("video")}
            has_audio == \E i \in 1..Len(streams) : streams[i].codec_type = SomeStr("audio")
            first == streams[CHOOSE i \in videos : \A j \in videos : i <= j]
            dropped ==
                \/ ~probe.ok
                \/ videos = {}
                \/ ~first.width.some \/ ~first.height.some
                \/ first.width.val < 0 \/ first.height.val < 0
                \/ (~has_audio /\ ~Resolves(first.duration) /\ ~Resolves(probe.format.duration))
            d == IF Resolves(first.duration) THEN ParseF64(first.duration.val)
                 ELSE ParseF64(probe.format.duration.val)
            r == u_ret.analyzed
        IN  /\ r.some <=> ~dropped
            /\ r.some =>
                /\ r.val.width = first.width.val /\ r.val.height = first.height.val
                /\ r.val.alternative_null_audio_duration.some <=> ~has_audio
                /\ ~has_audio => r.val.alternative_null_audio_duration = d

\* an input with an audio stream and no duration anywhere is kept
C5_Witness ==
    /\ Returned("analyze_video_file")
    /\ u_call.probe = Probed(NoneText, <<VideoStream(SomeInt(300), SomeInt(400), NoneText),
                                         AudioStream>>)
    /\ u_ret.analyzed = SomeInputFile(InputFile(1, 300, 400, NoneF64))

\* the decimal value of a captured field fits the 8 bits of a u8
FitsU8(digits) == DecVal(digits, 0) <= U8Max

\* C7: check returns Ok if and only if the process starts, its stdout matches
\* the version pattern, both captured fields are integers in 0..255, the
\* major is the expected one and the minor is at least the floor; otherwise
\* the error is, in this priority, the process failure, the unmatched output,
\* the invalid integer, the unsupported version with the major and the minor
C7_CheckCommand ==
    Returned("check_command") =>
        LET output == u_call.output
            caps == RegexCaptures(u_call.re, output.stdout)
            major == DecVal(caps.c1, 0)
            minor == DecVal(caps.c2, 0)
            r == u_ret.check
        IN  /\ r.ok <=> /\ output.started
                        /\ caps.matched
                        /\ FitsU8(caps.c1) /\ FitsU8(caps.c2)
                        /\ major = u_call.expected_major_version
                        /\ minor >= u_call.min_minor_version
            /\ ~r.ok =>
                r.err.kind =
                    IF ~output.started THEN "VersionCheckCommandProcessFailed"
                    ELSE IF ~caps.matched THEN "VersionOutputNotMatched"
                    ELSE IF ~FitsU8(caps.c1) \/ ~FitsU8(caps.c2) THEN "VersionNotValidInteger"
                    ELSE "NotSupportedCommandVersion"
            /\ (~r.ok /\ r.err.kind = "NotSupportedCommandVersion") =>
                r.err.a = major /\ r.err.b = minor

\* the cases (5, 5, "5.4") and (255, 255, "255.256") of test_check_command
C7_Witness ==
    /\ Returned("check_command")
    /\ u_call.re = "TEST_VERSION_REGEX"
    /\ \/ /\ u_call.expected_major_version = 5 /\ u_call.min_minor_version = 5
          /\ u_call.output = Exited(0, TXT_ECHO_5_4, <<>>)
          /\ u_ret.check = Err(Error("NotSupportedCommandVersion", 5, 4, 0, <<>>))
       \/ /\ u_call.expected_major_version = U8Max /\ u_call.min_minor_version = U8Max
          /\ u_call.output = Exited(0, TXT_ECHO_255_256, <<>>)
          /\ u_ret.check = Err(Error("VersionNotValidInteger", 0, 0, 0, <<"2", "5", "6">>))

-----------------------------------------------------------------------------
(* The pipeline: claims C6, C8, C9 and C10 *)

\* the inputs whose analysis returned Some, in the order they were analyzed
Survivors == SelectSeq(analysis, LAMBDA a : a.some)

VersionErrorKinds ==
    {"VersionCheckCommandProcessFailed", "VersionOutputNotMatched",
     "VersionNotValidInteger", "NotSupportedCommandVersion"}

\* the run is past the analysis of its inputs
AnalysisOver ==
    \/ pc \in {"search", "encode", "panicked"}
    \/ pc = "returned" /\ result.err.kind \notin VersionErrorKinds

\* C6: the analyzed collection is the subsequence of the inputs whose analysis
\* returned Some, in input order; once both version checks have passed the
\* pipeline fails with NoAvailableVideoStream if and only if that collection
\* is empty, so dropped inputs beside a survivor never fail the analysis stage
C6_CollectedSubsequence ==
    /\ input_files = [i \in 1..Len(Survivors) |-> Survivors[i].val]
    /\ \A i, j \in 1..Len(input_files) : i < j => input_files[i].path < input_files[j].path
    /\ \A i \in 1..Len(analysis) : analysis[i].some => analysis[i].val.path = i
    /\ AnalysisOver =>
        /\ Len(analysis) = args.paths
        /\ (result.kind = "Err" /\ result.err.kind = "NoAvailableVideoStream")
            <=> (\A i \in 1..Len(analysis) : ~analysis[i].some)
    /\ ~AnalysisOver => result.err.kind # "NoAvailableVideoStream"

\* three inputs, the second dropped, and the run goes on to the search with
\* the first and the third
C6_Witness ==
    /\ pc = "search"
    /\ Len(analysis) = 3
    /\ analysis[1].some /\ ~analysis[2].some /\ analysis[3].some
    /\ Len(input_files) = 2
    /\ input_files[1].path = 1 /\ input_files[2].path = 3

\* what C7 says of one version command: "Ok" or the kind of its error
CheckOutcome(expected_major_version, min_minor_version, output, re) ==
    LET caps == RegexCaptures(re, output.stdout)
    IN  IF ~output.started THEN "VersionCheckCommandProcessFailed"
        ELSE IF ~caps.matched THEN "VersionOutputNotMatched"
        ELSE IF ~FitsU8(caps.c1) \/ ~FitsU8(caps.c2) THEN "VersionNotValidInteger"
        ELSE IF DecVal(caps.c1, 0) # expected_major_version
                \/ DecVal(caps.c2, 0) < min_minor_version
        THEN "NotSupportedCommandVersion"
        ELSE "Ok"

\* the outcome of the k-th version command of the run: ffmpeg 6.0 or later
\* of major 6, then ab-av1 0.7 or later of major 0
VersionOutcome(k) ==
    IF k = 1
    THEN CheckOutcome(6, 0, version_outputs[1], "FFMPEG_STDOUT_RETRIEVE_VERSION_REGEX")
    ELSE CheckOutcome(0, 7, version_outputs[2], "AB_AV1_STDOUT_RETRIEVE_VERSION_REGEX")

\* the positions in the log of the processes that do the work
WorkStarted == {k \in 1..Len(log) : log[k].proc \in {"ffprobe", "ab-av1 crf-search", "ffmpeg"}}

\* C8: the version check of the encoder and then of the quality-search tool
\* both succeed before any input is probed; if either fails the pipeline
\* returns that error, no probe, search or encoder is ever started, and no
\* check is repeated
C8_ChecksFirst ==
    /\ Len(version_outputs) <= 2
    /\ Len(version_outputs) = Cardinality({k \in 1..Len(log) :
                                    log[k].proc \in {"ffmpeg -version", "ab-av1 --version"}})
    /\ Len(version_outputs) >= 1 => log[1].proc = "ffmpeg -version"
    /\ Len(version_outputs) = 2 =>
        log[2].proc = "ab-av1 --version" /\ VersionOutcome(1) = "Ok"
    /\ WorkStarted # {} =>
        /\ Len(version_outputs) = 2
        /\ VersionOutcome(1) = "Ok" /\ VersionOutcome(2) = "Ok"
        /\ \A k \in WorkStarted : k > 2
    /\ \A k \in 1..Len(version_outputs) :
        VersionOutcome(k) # "Ok" =>
            /\ pc = "returned"
            /\ result.kind = "Err" /\ result.err.kind = VersionOutcome(k)
            /\ Len(log) = k
            /\ WorkStarted = {}

\* ffmpeg 6.0 passes, ab-av1 0.6.9 does not: the run is over after two processes
C8_Witness ==
    /\ version_outputs = <<Exited(0, TXT_FFMPEG_6_0, <<>>), Exited(0, TXT_AB_AV1_0_6_9, <<>>)>>
    /\ pc = "returned"
    /\ result = ErrResult(Error("NotSupportedCommandVersion", 0, 6, 0, <<>>))
    /\ log = <<Started("ffmpeg -version", 0), Started("ab-av1 --version", 0)>>

\* the first input, in input order, of the largest width * height
FirstLargest(files) ==
    CHOOSE i \in 1..Len(files) :
        /\ \A j \in 1..Len(files) :
            files[j].width * files[j].height <= files[i].width * files[i].height
        /\ \A j \in 1..(i - 1) :
            files[j].width * files[j].height < files[i].width * files[i].height

\* C9: the reference input handed to the quality search is the one of the
\* largest width * height, and of several of that area the first in input order
C9_ReferenceFirstLargest ==
    \A k \in 1..Len(log) :
        log[k].proc = "ab-av1 crf-search" =>
            /\ log[k].path = input_files[FirstLargest(input_files)].path
            /\ search_cmd[Len(search_cmd)] = PathArg(log[k].path)

\* C9 without the tie rule, which is what video.rs keeps: the reference input
\* is one of the largest area
C9_ReferenceLargest ==
    \A k \in 1..Len(log) :
        log[k].proc = "ab-av1 crf-search" =>
            \E i \in 1..Len(input_files) :
                /\ log[k].path = input_files[i].path
                /\ \A j \in 1..Len(input_files) :
                    input_files[j].width * input_files[j].height
                        <= input_files[i].width * input_files[i].height

\* C9 for the loop of main.rs, which keeps the first of the largest
C9_ReferenceFirstLargestMainRs ==
    (Returned("main") /\ \E i \in 1..Len(u_call.files) :
                            u_call.files[i].width * u_call.files[i].height > 0) =>
        u_ret.best = SomeInt(u_call.files[FirstLargest(u_call.files)].path)

\* C10: for every min_crf of 0..255 the search is invoked with the floor
\* min_crf + 1, computed without overflow, wrap-around or abort, with the
\* ceiling 55 and with the caller's quality floor as the minimum score
C10_SearchFloor ==
    /\ pc # "panicked"
    /\ search_cmd # <<>> =>
        /\ search_cmd[2] = "--min-vmaf" /\ search_cmd[3] = ToString(args.enough_vmaf)
        /\ search_cmd[4] = "--min-crf"  /\ search_cmd[5] = ToString(args.min_crf + 1)
        /\ search_cmd[6] = "--max-crf"  /\ search_cmd[7] = "55"

\* C10 for every min_crf below 255, where it holds
C10_SearchFloorBelowU8Max ==
    args.min_crf < U8Max =>
        /\ pc # "panicked"
        /\ search_cmd # <<>> =>
            /\ search_cmd[2] = "--min-vmaf" /\ search_cmd[3] = ToString(args.enough_vmaf)
            /\ search_cmd[4] = "--min-crf"  /\ search_cmd[5] = ToString(args.min_crf + 1)
            /\ search_cmd[6] = "--max-crf"  /\ search_cmd[7] = "55"

-----------------------------------------------------------------------------
(* The outcome of the quality search, claims C11 and C12 *)

\* the search process has run and o is what it gave
SearchRan == Len(search_outputs) = 1

\* the path the search was started on
SearchPath == log[CHOOSE k \in 1..Len(log) : log[k].proc = "ab-av1 crf-search"].path

\* C11: when the search process exits successfully the search returns
\* (crf, Some(vmaf)), the two values captured from 'crf <int> VMAF <real>' at
\* the start of stdout; if stdout does not match or the crf does not fit a
\* u8 it returns InvalidAbAv1Output with the path and the raw text; stderr is
\* not consulted
C11_SearchSuccess ==
    (SearchRan /\ search_outputs[1].started /\ search_outputs[1].success) =>
        LET stdout == search_outputs[1].stdout
            caps == AB_AV1_STDOUT_RETRIEVE_CRF_REGEX(stdout)
        IN  IF caps.matched /\ FitsU8(caps.c1)
            THEN /\ best = OkResult(DecVal(caps.c1, 0), ParseF64(caps.c2))
                 /\ best.vmaf.some
                 /\ result.err.kind \notin {"InvalidAbAv1Output", "UnknownAbAv1ErrorMessage",
                                            "AbAv1CommandProcessFailed"}
            ELSE /\ best = NoResult
                 /\ pc = "returned"
                 /\ result = ErrResult(Error("InvalidAbAv1Output", 0, 0, SearchPath, stdout))

\* a successful search whose stderr ends with the not-found text: crf 32, VMAF 95.5
C11_Witness ==
    /\ search_outputs = <<Exited(0, TXT_CRF_32, TXT_NOT_FOUND)>>
    /\ best = OkResult(32, SomeF64(F64Of(<<"9", "5", ".", "5">>)))
    /\ pc = "encode"

\* the text without its trailing whitespace ends with the not-found message
EndsWithNotFound(s) ==
    LET lit == <<"F", "a", "i", "l", "e", "d", " ", "t", "o", " ", "f", "i", "n", "d", " ",
                 "a", " ", "s", "u", "i", "t", "a", "b", "l", "e", " ", "c", "r", "f">>
        ends == {n \in 0..Len(s) : (n = 0 \/ s[n] \notin Whitespace)
                                   /\ \A k \in (n + 1)..Len(s) : s[k] \in Whitespace}
        n == CHOOSE x \in ends : TRUE
    IN  n >= Len(lit) /\ SubSeq(s, n - Len(lit) + 1, n) = lit

-----------------------------------------------------------------------------
(* The encoder run and its command line, claims C13 and C14 *)

\* the encoder process has run
EncodeRan == Len(encode_outputs) = 1

\* the argument that follows flag in the encoder command, <<>> without the flag
ArgAfter(flag) ==
    LET at == {k \in 1..(Len(ffmpeg_cmd) - 1) : ffmpeg_cmd[k] = flag}
    IN  IF at = {} THEN <<>> ELSE <<ffmpeg_cmd[(CHOOSE k \in at : \A j \in at : k <= j) + 1]>>

\* C13: the encode stage returns FfmpegCommandProcessFailed if the encoder
\* cannot be launched, FfmpegCommandExitAbnormally(status, stderr) if it exits
\* non-zero, and on a zero exit exactly the (crf, vmaf) pair of the quality
\* search, whose crf is also the value passed after -crf
C13_EncodeOutcome ==
    EncodeRan =>
        LET output == encode_outputs[1]
        IN  /\ pc = "returned"
            /\ best.kind = "Ok"
            /\ ArgAfter("-crf") = <<ToString(best.crf)>>
            /\ IF ~output.started
               THEN result = ErrResult(Error("FfmpegCommandProcessFailed", 0, 0, 0, <<>>))
               ELSE IF output.code # 0
               THEN result = ErrResult(Error("FfmpegCommandExitAbnormally", output.code, 0, 0,
                                             output.stderr))
               ELSE result = OkResult(best.crf, best.vmaf)

\* the encoder exits with status 1 after a search that found crf 32
C13_Witness ==
    /\ search_outputs = <<Exited(0, TXT_CRF_32, <<>>)>>
    /\ encode_outputs = <<Exited(1, <<>>, TXT_SOME_ERROR)>>
    /\ ArgAfter("-crf") = <<"32">>
    /\ result = ErrResult(Error("FfmpegCommandExitAbnormally", 1, 0, 0, TXT_SOME_ERROR))

\* the statements the filter program is to hold for input i (from 1) of files
ClaimedVideoStatement(files, i) ==
    LET tw == TargetWidth(files)
        th == TargetHeight(files)
    IN  IF files[i].width = tw /\ files[i].height = th THEN NullStatement(i - 1)
        ELSE IF files[i].width * th = files[i].height * tw THEN ScaleStatement(i - 1, tw, th)
        ELSE PadStatement(i - 1, tw, th)

ClaimedAudioStatement(files, i) ==
    IF files[i].alternative_null_audio_duration.some
    THEN "anullsrc=d=" \o DisplayF64(files[i].alternative_null_audio_duration.val)
         \o "[a" \o ToString(i - 1) \o "];"
    ELSE "[" \o ToString(i - 1) \o ":a:0]anull[a" \o ToString(i - 1) \o "];"

RECURSIVE ClaimedProgramUpTo(_, _)
ClaimedProgramUpTo(files, n) ==
    IF n = 0 THEN ""
    ELSE ClaimedProgramUpTo(files, n - 1)
         \o ClaimedVideoStatement(files, n) \o ClaimedAudioStatement(files, n)

\* C14: in every encoder command the k-th '-i <path>' is the path of the k-th
\* surviving analyzed input, and the statements of the filter program tagged
\* with the index k are derived from that same input, also when unusable
\* inputs were dropped between usable ones
C14_InputsAndTagsAligned ==
    ffmpeg_cmd # <<>> =>
        LET files == [k \in 1..Len(Survivors) |-> Survivors[k].val]
            n == Len(files)
        IN  /\ n >= 1
            /\ ffmpeg_cmd[1] = "-y"
            /\ \A k \in 1..n :
                /\ ffmpeg_cmd[2 * k] = "-i"
                /\ ffmpeg_cmd[2 * k + 1] = PathArg(files[k].path)
            /\ \A k \in 1..Len(ffmpeg_cmd) : ffmpeg_cmd[k] = "-i" => k <= 2 * n
            /\ n >= 2 =>
                ArgAfter("-filter_complex") =
                    <<ClaimedProgramUpTo(files, n) \o ConcatStatement(n)>>

\* three inputs, the second unusable: the first (300x400 with audio) is
\* input 0 and the third (150x200, silent for 3.5 s) is input 1
C14_Witness ==
    /\ Len(analysis) = 3 /\ ~analysis[2].some
    /\ Len(ffmpeg_cmd) >= 6
    /\ ffmpeg_cmd[3] = "input1.mp4" /\ ffmpeg_cmd[5] = "input3.mp4"
    /\ ArgAfter("-filter_complex") = <<"[0:v:0]null[v0];[0:a:0]anull[a0];[1:v:0]scale=300:400[v1];anullsrc=d=3.5[a1];[v0][a0][v1][a1]concat=n=2:v=1:a=1[vout][aout]">>

-----------------------------------------------------------------------------
(* The order of the processes and the propagation of errors, claims C15 to C17 *)

\* the positions in the log where proc was started
StartsOf(proc) == {k \in 1..Len(log) : log[k].proc = proc}

\* C15: in every run the quality search is started at most once and the
\* encoder at most once, neither is started again after a failure, and the
\* encoder is started only after the search process has exited
C15_OnceAndInOrder ==
    /\ Cardinality(StartsOf("ab-av1 crf-search")) <= 1
    /\ Cardinality(StartsOf("ffmpeg")) <= 1
    /\ Cardinality(StartsOf("ab-av1 crf-search")) = Len(search_outputs)
    /\ Cardinality(StartsOf("ffmpeg")) = Len(encode_outputs)
    /\ \A k \in StartsOf("ffmpeg") :
        /\ k = Len(log)
        /\ StartsOf("ab-av1 crf-search") = {k - 1}
        /\ SearchRan /\ search_outputs[1].started
    /\ EncodeRan => pc = "returned"
    /\ (SearchRan /\ best.kind # "Ok") => pc = "returned" /\ ~EncodeRan

\* a whole run of one input: each process once, the encoder last, and failed
C15_Witness ==
    /\ log = <<Started("ffmpeg -version", 0), Started("ab-av1 --version", 0),
               Started("ffprobe", 1), Started("ab-av1 crf-search", 1), Started("ffmpeg", 0)>>
    /\ encode_outputs = <<Exited(1, <<>>, TXT_SOME_ERROR)>>
    /\ pc = "returned"

\* the error the search is to return for what its process gave, "" for none
SearchErrorKind(output) ==
    IF ~output.started THEN "AbAv1CommandProcessFailed"
    ELSE IF output.success
    THEN LET caps == AB_AV1_STDOUT_RETRIEVE_CRF_REGEX(output.stdout)
         IN  IF caps.matched /\ FitsU8(caps.c1) THEN "" ELSE "InvalidAbAv1Output"
    ELSE IF EndsWithNotFound(output.stderr) THEN "" ELSE "UnknownAbAv1ErrorMessage"

\* C16: if the quality search returns an error (the process failure, the
\* invalid output, the unknown message) or the analysis leaves no usable input,
\* the pipeline returns exactly that error and the encoder is never started:
\* the encoder runs only when every earlier stage succeeded or degraded
C16_ErrorsPropagate ==
    /\ (SearchRan /\ SearchErrorKind(search_outputs[1]) # "") =>
        /\ pc = "returned"
        /\ result.kind = "Err"
        /\ result.err.kind = SearchErrorKind(search_outputs[1])
        /\ result.err.path = SearchPath
        /\ StartsOf("ffmpeg") = {} /\ ~EncodeRan
    /\ (AnalysisOver /\ Survivors = <<>>) =>
        /\ pc = "returned"
        /\ result = ErrResult(Error("NoAvailableVideoStream", 0, 0, 0, <<>>))
        /\ StartsOf("ab-av1 crf-search") = {} /\ StartsOf("ffmpeg") = {}
    /\ StartsOf("ffmpeg") # {} =>
        /\ Len(version_outputs) = 2 /\ VersionOutcome(1) = "Ok" /\ VersionOutcome(2) = "Ok"
        /\ Survivors # <<>>
        /\ SearchRan /\ SearchErrorKind(search_outputs[1]) = ""

\* the search tool cannot be started: the run ends with that error
C16_Witness ==
    /\ search_outputs = <<NotStarted>>
    /\ pc = "returned"
    /\ result = ErrResult(Error("AbAv1CommandProcessFailed", 0, 0, SearchPath, <<>>))
    /\ encode_outputs = <<>>

\* the encoder command holds flag
HasArg(flag) == \E k \in 1..Len(ffmpeg_cmd) : ffmpeg_cmd[k] = flag

\* C17: the encoder command carries a filter program and the mappings of
\* [vout] and [aout] if and only if at least two inputs survived the
\* analysis; with one survivor there is no filter program and no mapping,
\* also when that input has no audio track
C17_FilterIffTwoSurvivors ==
    ffmpeg_cmd # <<>> =>
        LET n == Len(Survivors)
        IN  /\ HasArg("-filter_complex") <=> n >= 2
            /\ HasArg("-map") <=> n >= 2
            /\ HasArg("[vout]") <=> n >= 2
            /\ HasArg("[aout]") <=> n >= 2
            /\ n >= 2 =>
                /\ ffmpeg_cmd[2 * n + 2] = "-filter_complex"
                /\ SubSeq(ffmpeg_cmd, 2 * n + 4, 2 * n + 7) = <<"-map", "[vout]", "-map", "[aout]">>
            /\ n = 1 => SubSeq(ffmpeg_cmd, 1, 3) = <<"-y", "-i", PathArg(Survivors[1].val.path)>>
                        /\ (Len(ffmpeg_cmd) > 3 => ffmpeg_cmd[4] = "-c:v")

\* three paths, only the second usable, and that one without audio
C17_Witness ==
    /\ args.paths = 3
    /\ Len(Survivors) = 1
    /\ Survivors[1].val.path = 2
    /\ Survivors[1].val.alternative_null_audio_duration.some
    /\ pc = "search"
    /\ ffmpeg_cmd = <<"-y", "-i", "input2.mp4">>

-----------------------------------------------------------------------------
(* The resolution of a duration, claim C18.                                *)

DurationResolved ==
    pc = "unit" /\ u_call.fn = "get_stream_duration" /\ u_ret.returned

\* the field is present and its text reads as a number
ParsesAsNumber(field) == field.some /\ ParseF64(field.val).some

\* the field is present and its text reads as a finite number
ParsesAsFinite(field) ==
    ParsesAsNumber(field) /\ ParseF64(field.val).val.class = "finite"

\* C18: the resolution of a duration returns the stream-level duration when
\* it is present and parses as a finite number, otherwise the container-level
\* duration when that is present and parses as a finite number, otherwise
\* nothing; a resolved duration is always a finite number.
C18_ResolvedDurationFinite ==
    DurationResolved =>
        LET stream == u_call.probe.streams[1].duration
            format == u_call.probe.format.duration
        IN  /\ u_ret.duration =
                 IF ParsesAsFinite(stream) THEN ParseF64(stream.val)
                 ELSE IF ParsesAsFinite(format) THEN ParseF64(format.val)
                 ELSE NoneF64
            /\ u_ret.duration.some => u_ret.duration.val.class = "finite"

\* what the code does: the first field f64::from_str reads wins, whatever the
\* number, and the claim holds of the calls with no "inf" and no "NaN" field
C18_ResolvedDurationParsed ==
    DurationResolved =>
        LET stream == u_call.probe.streams[1].duration
            format == u_call.probe.format.duration
        IN  /\ u_ret.duration =
                 IF ParsesAsNumber(stream) THEN ParseF64(stream.val)
                 ELSE IF ParsesAsNumber(format) THEN ParseF64(format.val)
                 ELSE NoneF64
            /\ (\A field \in {stream, format} :
                    ParsesAsNumber(field) => ParsesAsFinite(field))
               => /\ u_ret.duration.some => u_ret.duration.val.class = "finite"
                  /\ u_ret.duration.some <=>
                         ParsesAsFinite(stream) \/ ParsesAsFinite(format)

\* a stream duration of "inf" over a container duration of 2.5
C18_NonFiniteStreamOverFiniteFormat ==
    /\ DurationResolved
    /\ u_call.probe.streams[1].duration = SomeText(<<"i", "n", "f">>)
    /\ u_call.probe.format.duration = SomeText(<<"2", ".", "5">>)
    /\ u_ret.duration.some /\ u_ret.duration.val.class = "inf"

-----------------------------------------------------------------------------
(* The version patterns, claim C19.                                        *)

\* the shape of the search tool's version output: "ab-av1", whitespace,
\* <major>.<minor>.<patch>, each a run of one or more digits
AbAv1VersionShape(s) ==
    LET w  == RunEnd(s, 7, Whitespace)
        d1 == RunEnd(s, w, Digits)
        d2 == RunEnd(s, d1 + 1, Digits)
        d3 == RunEnd(s, d2 + 1, Digits)
    IN  IF /\ HasLit(s, 1, <<"a", "b", "-", "a", "v", "1">>)
           /\ w > 7 /\ d1 > w
           /\ HasLit(s, d1, <<".">>) /\ d2 > d1 + 1
           /\ HasLit(s, d2, <<".">>) /\ d3 > d2 + 1
        THEN Captures(s, w, d1, d1 + 1, d2)
        ELSE NoCaptures

\* the shape of the encoder's version output, ^ffmpeg\s+version?\s+(\d+)\.(\d+):
\* "ffmpeg", whitespace, "versio" or "version", whitespace, <major>.<minor>
FfmpegVersionShape(s) ==
    LET w1 == RunEnd(s, 7, Whitespace)
        v  == IF HasLit(s, w1, <<"v", "e", "r", "s", "i", "o", "n">>) THEN w1 + 7 ELSE w1 + 6
        w2 == RunEnd(s, v, Whitespace)
        d1 == RunEnd(s, w2, Digits)
        d2 == RunEnd(s, d1 + 1, Digits)
    IN  IF /\ HasLit(s, 1, <<"f", "f", "m", "p", "e", "g">>)
           /\ w1 > 7 /\ HasLit(s, w1, <<"v", "e", "r", "s", "i", "o">>)
           /\ w2 > v /\ d1 > w2
           /\ HasLit(s, d1, <<".">>) /\ d2 > d1 + 1
        THEN Captures(s, w2, d1, d1 + 1, d2)
        ELSE NoCaptures

\* the check of an output of the shape answers by the major and the minor of
\* the shape: the pattern accepted the output and extracted the two
AnswersByShape(shape) ==
    LET major == DecVal(shape.c1, 0)
        minor == DecVal(shape.c2, 0)
        r == u_ret.check
    IN  IF ~FitsU8(shape.c1) \/ ~FitsU8(shape.c2)
        THEN ~r.ok /\ r.err.kind = "VersionNotValidInteger"
        ELSE IF major = u_call.expected_major_version /\ minor >= u_call.min_minor_version
        THEN r.ok
        ELSE r = Err(Error("NotSupportedCommandVersion", major, minor, 0, <<>>))

\* the search tool's half of C19
C19_SearchToolPatternAccepts ==
    ( /\ Returned("check_command") /\ u_call.output.started
      /\ u_call.re = "AB_AV1_STDOUT_RETRIEVE_VERSION_REGEX"
      /\ AbAv1VersionShape(u_call.output.stdout).matched )
    => AnswersByShape(AbAv1VersionShape(u_call.output.stdout))

\* the encoder's half of C19
C19_EncoderPatternAccepts ==
    ( /\ Returned("check_command") /\ u_call.output.started
      /\ u_call.re = "FFMPEG_STDOUT_RETRIEVE_VERSION_REGEX"
      /\ FfmpegVersionShape(u_call.output.stdout).matched )
    => AnswersByShape(FfmpegVersionShape(u_call.output.stdout))

\* C19: the version pattern of the search tool accepts every output whose
\* first line starts with "ab-av1", whitespace and <major>.<minor>.<patch>,
\* the patch any run of one or more digits (0.7.12 for one), and extracts the
\* major and the minor; the pattern of the encoder accepts every first line of
\* the encoder's shape.
C19_VersionPatternsAccept ==
    C19_SearchToolPatternAccepts /\ C19_EncoderPatternAccepts

\* what the code does: the search tool's pattern takes one character, any
\* but a line feed, and one digit before a word boundary for ".<patch>", and
\* the encoder's pattern the whole word "version" and a word boundary after
\* the minor
C19_VersionPatternsAcceptBounded ==
    ( /\ Returned("check_command") /\ u_call.output.started
      /\ u_call.re \in {"AB_AV1_STDOUT_RETRIEVE_VERSION_REGEX",
                        "FFMPEG_STDOUT_RETRIEVE_VERSION_REGEX"} )
    => LET s == u_call.output.stdout
           ab == AbAv1VersionShape(s)
           ff == FfmpegVersionShape(s)
           patch == RunEnd(s, RunEnd(s, 7, Whitespace), Digits) + Len(ab.c2) + 2
           minor_end == RunEnd(s, RunEnd(s, 7, Whitespace) + 7, Whitespace)
                            + Len(ff.c1) + 1 + Len(ff.c2)
       IN  /\ ( /\ u_call.re = "AB_AV1_STDOUT_RETRIEVE_VERSION_REGEX"
                /\ ab.matched /\ WordBoundary(s, patch + 1) )
              => AnswersByShape(ab)
           /\ ( /\ u_call.re = "FFMPEG_STDOUT_RETRIEVE_VERSION_REGEX"
                /\ ff.matched
                /\ HasLit(s, RunEnd(s, 7, Whitespace), <<"v", "e", "r", "s", "i", "o", "n">>)
                /\ WordBoundary(s, minor_end) )
              => AnswersByShape(ff)

\* "ab-av1 0.7.12" against (0, 7): the output is not matched
C19_TwoDigitPatchNotMatched ==
    /\ Returned("check_command")
    /\ u_call.re = "AB_AV1_STDOUT_RETRIEVE_VERSION_REGEX"
    /\ u_call.expected_major_version = 0 /\ u_call.min_minor_version = 7
    /\ u_call.output = Exited(0, TXT_AB_AV1_0_7_12, <<>>)
    /\ u_ret.check = Err(Error("VersionOutputNotMatched", 0, 0, 0, TXT_AB_AV1_0_7_12))

-----------------------------------------------------------------------------
(* The filter program as a graph, claim C20.                               *)

\* the pad "[v<i>]" or "[a<i>]"
Pad(kind, i) == "[" \o kind \o ToString(i) \o "]"

\* the stream of an input, "[<i>:v:0]" or "[<i>:a:0]"
StreamOf(kind, i) == "[" \o ToString(i) \o ":" \o kind \o ":0]"

\* the places (statement, position) where the graph writes the pad
DefinitionsOf(graph, pad) ==
    { <<k, j>> \in (DOMAIN graph) \X (1..2) :
        j <= Len(graph[k].defines) /\ graph[k].defines[j] = pad }

\* the places (statement, position) where the graph reads the pad
UsesOf(graph, pad) ==
    { <<k, j>> \in (DOMAIN graph) \X (1..(2 * MaxInputs)) :
        j <= Len(graph[k].uses) /\ graph[k].uses[j] = pad }

\* C20: for every non-empty sequence of N analyzed inputs the filter program
\* is well formed: each pad [v<i>] and [a<i>], i in 0..N-1, is written by
\* exactly one statement and read exactly once, by the final concat statement
\* only; no other intermediate pad appears; the n of the concat is the number
\* of (video, audio) pairs of pads it reads.
C20_FilterProgramWellFormed ==
    Returned("get_avfilter_code") =>
        LET graph == u_ret.graph
            N == Len(u_call.files)
            last == Len(graph)
            concat == graph[last]
            Pads == {Pad(kind, i) : kind \in {"v", "a"}, i \in 0..(N - 1)}
        IN  /\ u_ret.statements = [k \in DOMAIN graph |-> filter_code_statement(graph[k])]
            /\ u_ret.code = Concat(u_ret.statements)
            /\ \A pad \in Pads :
                  /\ Cardinality(DefinitionsOf(graph, pad)) = 1
                  /\ Cardinality(UsesOf(graph, pad)) = 1
                  /\ \A use \in UsesOf(graph, pad) : use[1] = last
                  /\ \A def \in DefinitionsOf(graph, pad) : def[1] < last
            /\ \A k \in 1..(last - 1) :
                  /\ \A j \in DOMAIN graph[k].defines : graph[k].defines[j] \in Pads
                  /\ \A j \in DOMAIN graph[k].uses :
                        graph[k].uses[j] \in {StreamOf(kind, i) : kind \in {"v", "a"},
                                                                  i \in 0..(N - 1)}
            /\ \A j \in DOMAIN concat.uses : concat.uses[j] \in Pads
            /\ concat.defines = <<"[vout]", "[aout]">>
            /\ concat.filter = "concat"
            /\ Len(concat.uses) = 2 * concat.n
            /\ \A p \in 1..concat.n :
                  \E i \in 0..(N - 1) : /\ concat.uses[2 * p - 1] = Pad("v", i)
                                        /\ concat.uses[2 * p] = Pad("a", i)

\* two inputs, the first silent and the second with its own audio: five
\* statements, the last reading [v0][a0][v1][a1] with n=2
C20_Witness ==
    /\ Returned("get_avfilter_code")
    /\ Len(u_call.files) = 2
    /\ u_call.files[1].alternative_null_audio_duration.some
    /\ ~u_call.files[2].alternative_null_audio_duration.some
    /\ Len(u_ret.graph) = 5
    /\ u_ret.graph[5].uses = <<"[v0]", "[a0]", "[v1]", "[a1]">>
    /\ u_ret.graph[5].n = 2
    /\ u_ret.graph[2].uses = <<>> /\ u_ret.graph[4].uses = <<"[1:a:0]">>

-----------------------------------------------------------------------------
(* The range of the quality parameter, claim C21.                          *)

\* the number whose decimal text is the argument, -1 for any other text
U8Of(arg) ==
    IF \E n \in 0..U8Max : arg = ToString(n)
    THEN CHOOSE n \in 0..U8Max : arg = ToString(n)
    ELSE -1

\* the run returned Ok: the encoder was started with the parameter and exited 0
EncodedOk == pc = "returned" /\ result.kind = "Ok"

\* the floor of the search does not exceed its ceiling of 55
C21_FloorWithinCeiling ==
    search_cmd # <<>> =>
        /\ search_cmd[4] = "--min-crf" /\ search_cmd[6] = "--max-crf"
        /\ U8Of(search_cmd[7]) = MAX_CRF
        /\ U8Of(search_cmd[5]) >= 0
        /\ U8Of(search_cmd[5]) <= U8Of(search_cmd[7])

\* the parameter of an Ok outcome lies in min_crf..55
C21_ParameterWithinRange ==
    EncodedOk =>
        /\ ArgAfter("-crf") = <<ToString(result.crf)>>
        /\ args.min_crf <= result.crf
        /\ result.crf <= MAX_CRF

\* C21: for every min_crf of 0..255 the floor passed to the search tool does
\* not exceed the ceiling passed to it (floor <= 55), and the parameter passed
\* to the encoder on an Ok outcome lies in the range min_crf..55.
C21_FloorAndParameterInRange ==
    C21_FloorWithinCeiling /\ C21_ParameterWithinRange

\* what the code does: the floor is min_crf + 1 on a u8 against the fixed
\* ceiling, within it for min_crf below 55 only; the parameter is the number
\* the search tool printed, unchecked, or min_crf itself, so that it lies in
\* min_crf..55 where min_crf is below 55 and the tool kept to the range it
\* was given
C21_InRangeBelowCeiling ==
    args.min_crf < MAX_CRF =>
        /\ C21_FloorWithinCeiling
        /\ ( /\ EncodedOk
             /\ result.vmaf.some => /\ U8Of(search_cmd[5]) <= result.crf
                                    /\ result.crf <= U8Of(search_cmd[7]) )
           => C21_ParameterWithinRange

\* min_crf = 55: the search is started with the floor 56 under the ceiling 55,
\* finds nothing, and the encoder is run with 55
C21_FloorAboveCeiling ==
    /\ EncodedOk
    /\ args.min_crf = MAX_CRF
    /\ search_cmd[5] = "56" /\ search_cmd[7] = "55"
    /\ result = OkResult(MAX_CRF, NoneF64)

\* min_crf = 255 in a build without overflow checks: the floor wraps to 0,
\* nothing is found, and the encoder is run with 255
C21_ParameterAboveCeiling ==
    /\ EncodedOk
    /\ args.min_crf = U8Max
    /\ search_cmd[5] = "0"
    /\ ArgAfter("-crf") = <<"255">>

-----------------------------------------------------------------------------
(* The products of the dimensions, claim C22.                              *)

\* the product of two non-negative i64 over the unbounded integers, by its
\* odd part and its power of two
ExactProduct(a, b) ==
    LET p == I64Parts(a)
        q == I64Parts(b)
    IN  IF p.m * q.m = 0 THEN [neg |-> FALSE, m |-> 0, e |-> 0]
        ELSE [neg |-> FALSE, m |-> p.m * q.m, e |-> p.e + q.e]

\* the product lies in the range of an i64, below 2^63
WithinI64(product) == product.m = 0 \/ BitLen(product.m) + product.e <= I64Bits - 1

\* the greatest of the widths and of the heights
ExactTargetWidth(files) ==
    CHOOSE w \in {files[i].width : i \in 1..Len(files)} :
        \A i \in 1..Len(files) : ~MagnitudeGt(I64Parts(files[i].width), I64Parts(w))

ExactTargetHeight(files) ==
    CHOOSE h \in {files[i].height : i \in 1..Len(files)} :
        \A i \in 1..Len(files) : ~MagnitudeGt(I64Parts(files[i].height), I64Parts(h))

\* the filter of the video statement of input i, the aspect ratios compared
\* over the unbounded integers
ExactVideoFilter(files, i) ==
    LET tw == ExactTargetWidth(files)
        th == ExactTargetHeight(files)
    IN  IF files[i].width = tw /\ files[i].height = th THEN "null"
        ELSE IF ExactProduct(files[i].width, th) = ExactProduct(files[i].height, tw)
        THEN "scale=" \o I64Display(tw) \o ":" \o I64Display(th)
        ELSE "scale=" \o I64Display(tw) \o ":" \o I64Display(th)
             \o ":force_original_aspect_ratio=decrease,pad="
             \o I64Display(tw) \o ":" \o I64Display(th) \o ":(ow-iw)/2:(oh-ih)/2"

\* the input max_by_key selects, the areas taken over the unbounded integers:
\* the last of the inputs of the greatest area
ExactBest(files) ==
    CHOOSE i \in 1..Len(files) :
        \A j \in 1..Len(files) :
            LET ai == ExactProduct(files[i].width, files[i].height)
                aj == ExactProduct(files[j].width, files[j].height)
            IN  IF j > i THEN MagnitudeGt(ai, aj) ELSE ~MagnitudeGt(aj, ai)

\* the products the two functions compute of the Vec
AreasOf(files) ==
    { ExactProduct(files[i].width, files[i].height) : i \in 1..Len(files) }

CrossProductsOf(files) ==
    LET tw == ExactTargetWidth(files)
        th == ExactTargetHeight(files)
    IN  UNION { {ExactProduct(files[i].width, th), ExactProduct(files[i].height, tw)} :
                i \in {j \in 1..Len(files) :
                          ~(files[j].width = tw /\ files[j].height = th)} }

SelectionCalled == u_call.fn \in {"best_input_file", "best_input_file_i64"}

FilterCalled == u_call.fn \in {"get_avfilter_code", "get_avfilter_code_i64"}

\* the selection and the statements are those of the unbounded integers
DecidedExactly ==
    /\ (SelectionCalled /\ u_ret.returned) =>
          u_ret.best = SomeInt(u_call.files[ExactBest(u_call.files)].path)
    /\ (FilterCalled /\ u_ret.returned) =>
          \A i \in 1..Len(u_call.files) :
              u_ret.graph[2 * i - 1].filter = ExactVideoFilter(u_call.files, i)

\* C22: for all the dimensions analysis accepts, any non-negative i64 width
\* and height, the products width * height of the selection of the reference
\* input and width * target_height, height * target_width of the aspect-ratio
\* test stay within the range of an i64, so that the selection and the
\* aspect-ratio decision are those computed over the unbounded integers.
C22_ProductsWithinI64 ==
    /\ pc # "panicked"
    /\ SelectionCalled => \A area \in AreasOf(u_call.files) : WithinI64(area)
    /\ FilterCalled => \A product \in CrossProductsOf(u_call.files) : WithinI64(product)
    /\ DecidedExactly

\* what the code does: where no product of the call leaves the range of an
\* i64 nothing aborts and the decisions are those of the unbounded integers
C22_ExactWhereProductsFit ==
    /\ (SelectionCalled /\ \A area \in AreasOf(u_call.files) : WithinI64(area))
          => pc # "panicked" /\ DecidedExactly
    /\ (FilterCalled /\ \A product \in CrossProductsOf(u_call.files) : WithinI64(product))
          => pc # "panicked" /\ DecidedExactly

\* 4294967296 x 4294967296 before 1 x 1, the overflow not checked: the area
\* 2^64 wraps to 0 and the input of 1 x 1 is selected
C22_SmallestSelected ==
    /\ u_call.fn = "best_input_file_i64" /\ u_ret.returned
    /\ u_call.files[1].width = I64Wide(FALSE, 1, 32)
    /\ u_call.files[1].height = I64Wide(FALSE, 1, 32)
    /\ u_call.files[2].width = 1
    /\ u_ret.best = SomeInt(2)

\* the same call, the overflow checked: the multiplication aborts the program
C22_MultiplicationAborts ==
    /\ u_call.fn = "best_input_file_i64" /\ pc = "panicked"
    /\ u_call.files[1].width = I64Wide(FALSE, 1, 32)
    /\ u_call.files[2].width = 1

\* 8589934592 x 4294967296 under the target 8589934592 x 8589934592: the
\* cross products 2^66 and 2^65 both wrap to 0 and the input is scaled, not
\* padded
C22_ScaledNotPadded ==
    /\ u_call.fn = "get_avfilter_code_i64" /\ u_ret.returned
    /\ u_call.files[1].width = I64Wide(FALSE, 1, 33)
    /\ u_call.files[1].height = I64Wide(FALSE, 1, 32)
    /\ u_ret.graph[1].filter = "scale=8589934592:8589934592"

=============================================================================
